---------------------------- MODULE Spec2Model ----------------------------
(***************************************************************************)
(* A model of the jazz-chords sequencer: the playback scheduler of         *)
(* src/src/hooks/useSequencer.ts together with the transport and editing   *)
(* handlers of App.tsx and Sequencer.tsx that drive it, and the voicing    *)
(* generator of src/src/logic/voicing-generator.ts.                        *)
(*                                                                         *)
(* Time is counted in ticks of 100 ms of the audio clock.  The look-ahead  *)
(* window (0.1 s) and the start offset (0.1 s) are one tick each; a beat   *)
(* is 60/bpm seconds, 600/bpm ticks rounded down to whole ticks.  Times    *)
(* are kept relative to the audio clock, which no handler reads except to  *)
(* compare it with, or add it to, the time of the next note.  The 25 ms    *)
(* interval fires several times in a tick: a scheduling pass may run any   *)
(* number of times at an instant.                                          *)
(***************************************************************************)
EXTENDS Integers, Sequences, FiniteSets, TLC

VARIABLES
    \* App.tsx state
    sequence, activeSlot, isPlaying, isPaused, isRepeatMode, repeatRange, bpm,
    \* Sequencer.tsx state
    copyMode, copyStart, copyEnd, repeatSelMode, repeatSelStart,
    \* useSequencer.ts state and refs; nextNoteTimeRef is kept relative to the
    \* audio clock: it holds nextNoteTimeRef.current - audioCtx.currentTime
    currentBeat, nextNoteTimeRef, currentStepRef, timerIDRef, isPlayingRef,
    \* the browser: the live interval timers, the props closed over by the
    \* running interval callback, the pending setTimeout callbacks
    timers, timerClosure, pending,
    \* history: the first dispatches of the current run, how the run began,
    \* what the last pause froze, and the number of editing and configuration
    \* gestures begun (the transport buttons and the clicks that complete a
    \* range or copy selection are not counted)
    runLog, runInfo, pauseInfo, gestures,
    \* the voicing generator's call under check: input and result
    genIn, genOut

vars == <<sequence, activeSlot, isPlaying, isPaused, isRepeatMode, repeatRange, bpm,
          copyMode, copyStart, copyEnd, repeatSelMode, repeatSelStart,
          currentBeat, nextNoteTimeRef, currentStepRef, timerIDRef, isPlayingRef,
          timers, timerClosure, pending,
          runLog, runInfo, pauseInfo, gestures, genIn, genOut>>

appVars == <<sequence, activeSlot, isPlaying, isPaused, isRepeatMode, repeatRange, bpm>>
uiVars == <<copyMode, copyStart, copyEnd, repeatSelMode, repeatSelStart>>
hookVars == <<currentBeat, nextNoteTimeRef, currentStepRef, timerIDRef, isPlayingRef>>
envVars == <<timers, timerClosure, pending>>
histVars == <<runLog, runInfo, pauseInfo, gestures>>
genVars == <<genIn, genOut>>

-----------------------------------------------------------------------------
(* Bounds of the model *)

\* a scheduling pass runs at most MaxLag ticks after a note entered the window
MaxLag == 0
\* at most MaxGestures editing and configuration gestures in one behaviour
MaxGestures == 1
\* the history keeps the first MaxLog dispatches of a fresh run
MaxLog == 5

(* Program constants *)

\* Array(160).fill(null): the slots of a sequence
SeqSlots == 160
\* Math.min(step, 159) in stepTo
LastSlot == 159
\* let loopEnd = 32: the loop length of an empty sequence
DefaultLoopEnd == 32
\* scheduleAheadTime = 0.1 s, in ticks
scheduleAheadTime == 1
\* currentTime + 0.1 on start and resume, in ticks
StartOffset == 1
\* if (isNaN(val)) val = 90
FallbackBpm == 90
\* Math.min(160, Math.max(40, val))
MinBpm == 40
MaxBpm == 160

Max(a, b) == IF a >= b THEN a ELSE b
Min(a, b) == IF a <= b THEN a ELSE b

-----------------------------------------------------------------------------
(* JavaScript values, as JSON.parse and the handlers produce them.  An     *)
(* array is its length and its non-null elements by 0-based index; an      *)
(* index below the length that holds nothing reads as null (a hole left by *)
(* a write past the end is falsy and is saved as null, like null itself).  *)

NULL == [type |-> "null"]
UNDEFINED == [type |-> "undefined"]
Str(s) == [type |-> "string", val |-> s]
Num(n) == [type |-> "number", val |-> n]
Arr(length, items) == [type |-> "array", length |-> length, items |-> items]
Pos(s, f, n) == [type |-> "object", string |-> s, fret |-> f, note |-> n]
VoicingObj(name, positions) == [type |-> "object", name |-> name, positions |-> positions]

\* if (voicing): null and undefined are falsy, an object is truthy
Truthy(v) == v.type \notin {"null", "undefined"}

\* arr[i]: undefined outside the array
At(arr, i) ==
    IF i \in DOMAIN arr.items THEN arr.items[i]
    ELSE IF 0 <= i /\ i < arr.length THEN NULL ELSE UNDEFINED

\* newSeq[i] = v on a copy of the array
SetAt(arr, i, v) ==
    Arr(Max(arr.length, i + 1),
        [k \in (IF v.type = "null" THEN DOMAIN arr.items \ {i}
                ELSE DOMAIN arr.items \cup {i}) |->
            IF k = i THEN v ELSE arr.items[k]])

\* Array(160).fill(null)
EmptySequence == Arr(SeqSlots, <<>>)

\* a voicing as handleChordClick stores it
PlacedVoicing ==
    VoicingObj(Str("Cmaj7 - Root Position"),
               Arr(2, (0 :> Pos(Num(2), Num(9), Str("B"))) @@ (1 :> Pos(Num(3), Num(9), Str("E")))))

NoRange == [type |-> "null"]
Range(s, e) == [type |-> "object", start |-> s, end |-> e]

-----------------------------------------------------------------------------
(* Inputs of the model *)

\* what parseInt makes of the tempo box when it is committed
NaN == [nan |-> TRUE, val |-> 0]
Parsed(n) == [nan |-> FALSE, val |-> n]
BpmInputs == {NaN, Parsed(300)}
\* useState(90): the tempo of a fresh page
InitialBpm == 90
\* the targets of manual seeks: the previous/next buttons call stepTo with
\* currentBeat - 1 and currentBeat + 1, so that repeated presses reach every
\* slot, and -1 from the first slot
StepInputs == {-1, 3, 5}
\* the slots a click on the grid selects
SlotInputs == {1, 4}
\* the files the load dialog is given: an older four-slot save, a file that
\* does not parse, a voicing whose name is a number
ShortFile == Arr(4, (1 :> PlacedVoicing))
Unparsable == [type |-> "unparsable"]
LoadInputs ==
    { ShortFile, Unparsable, Arr(1, (0 :> VoicingObj(Num(123), Arr(0, <<>>)))) }
\* what localStorage holds when the page is opened: the save of an earlier
\* visit (onClearAll leads to the empty sequence of a first visit)
StoredInputs == { ShortFile }

-----------------------------------------------------------------------------
(* persistence-utils.ts *)

\* obj.field: undefined when the value has no such property
Get(v, field) == IF field \in DOMAIN v THEN v[field] ELSE UNDEFINED

\* the callback of item.positions.every on one entry: reading a property of
\* null throws a TypeError, a number or a string has no such properties
posOutcome(pos) ==
    IF pos.type \in {"null", "undefined"} THEN "throws"
    ELSE IF /\ Get(pos, "string").type = "number"
            /\ Get(pos, "fret").type = "number"
            /\ Get(pos, "note").type = "string"
         THEN "true" ELSE "false"

\* item.positions.every(...): every stops at the first entry that is not
\* accepted, so that entry decides how the call ends
positionsOutcome(positions) ==
    LET stops == {i \in 0..(positions.length - 1) : posOutcome(At(positions, i)) # "true"}
    IN  IF stops = {} THEN "true"
        ELSE posOutcome(At(positions, CHOOSE i \in stops : \A k \in stops : i <= k))

\* the callback of data.every on one element; typeof is 'object' for an
\* array too, which has no name
itemOutcome(item) ==
    IF item.type = "null" THEN "true"
    ELSE IF /\ item.type \in {"object", "array"}
            /\ Get(item, "name").type = "string"
            /\ Get(item, "positions").type = "array"
         THEN positionsOutcome(item.positions)
         ELSE "false"

\* data.every(...): the first element that is not accepted decides
itemsOutcome(data) ==
    LET stops == {i \in 0..(data.length - 1) : itemOutcome(At(data, i)) # "true"}
    IN  IF stops = {} THEN "true"
        ELSE itemOutcome(At(data, CHOOSE i \in stops : \A k \in stops : i <= k))

\* how a call of validateSequence ends: it returns true or false, or throws
validateOutcome(data) ==
    IF data.type # "array" THEN "false" ELSE itemsOutcome(data)

\* a variant of validateSequence that accepts every array
validateSequenceAnyArray(data) == data.type = "array"

\* validateSequence(json) inside the try blocks of its callers: the branch of
\* a valid sequence is taken when it returns true
validateSequence(data) == validateOutcome(data) = "true"

-----------------------------------------------------------------------------
(* useSequencer.ts: the scheduler *)

\* sequenceRef.current: the effect on [sequence] stores every committed
\* sequence before the interval callback can run again
sequenceRef == sequence

\* const secondsPerBeat = 60.0 / bpm, in ticks
SecondsPerBeat(tempo) == 600 \div tempo

HasRange(repMode, repRange) == repMode /\ repRange.type # "null"

\* the forEach that leaves the index of the last truthy slot, or -1
LastPopulatedIndex(seq) ==
    LET populated == {i \in DOMAIN seq.items : Truthy(seq.items[i])}
    IN  IF populated = {} THEN -1
        ELSE CHOOSE m \in populated : \A i \in populated : i <= m

\* a variant of NextStep that wraps one step too late
NextStepLateWrap(step, cl, seq) ==
    IF step < 0
    THEN IF step + 1 = 0 /\ cl.isRepeatMode /\ cl.repeatRange.type # "null"
         THEN cl.repeatRange.start
         ELSE step + 1
    ELSE LET populated == {i \in DOMAIN seq.items : seq.items[i].type = "object"}
             last == IF populated = {} THEN -1
                     ELSE CHOOSE m \in populated : \A i \in populated : i <= m
             ranged == cl.isRepeatMode /\ cl.repeatRange.type # "null"
             loopStart == IF ranged THEN cl.repeatRange.start ELSE 0
             loopEnd == IF ranged THEN cl.repeatRange.end + 1
                        ELSE IF last # -1 THEN ((last \div 4) + 1) * 4 ELSE 32
         IN  IF step + 1 > loopEnd \/ step + 1 < loopStart THEN loopStart ELSE step + 1

\* the step nextNote leaves in currentStepRef; cl holds the props the running
\* interval callback closed over
NextStep(step, cl, seq) ==
    IF step < 0
    THEN IF step + 1 = 0 /\ HasRange(cl.isRepeatMode, cl.repeatRange)
         THEN cl.repeatRange.start
         ELSE step + 1
    ELSE LET lastPopulatedIndex == LastPopulatedIndex(seq)
             ranged == HasRange(cl.isRepeatMode, cl.repeatRange)
             loopStart == IF ranged THEN cl.repeatRange.start ELSE 0
             loopEnd == IF ranged THEN cl.repeatRange.end + 1
                        ELSE IF lastPopulatedIndex # -1
                             THEN ((lastPopulatedIndex \div 4) + 1) * 4
                             ELSE DefaultLoopEnd
             nextStep == step + 1
         IN  IF ranged
             THEN IF nextStep >= loopEnd \/ nextStep < loopStart
                  THEN loopStart ELSE nextStep
             ELSE IF nextStep >= loopEnd THEN 0 ELSE nextStep

\* nextNote on the pass's working state
nextNote(s, cl, seq) ==
    [s EXCEPT !.time = s.time + SecondsPerBeat(cl.bpm),
              !.step = NextStep(s.step, cl, seq)]

\* a variant of AudioTrigger that accents every click of the count-in
AudioTriggerAccentAll(beatNumber, seq) ==
    IF beatNumber < 0
    THEN [kind |-> "click", accent |-> TRUE]
    ELSE IF seq.length > beatNumber /\ beatNumber \in DOMAIN seq.items
         THEN [kind |-> "chord", accent |-> FALSE]
         ELSE [kind |-> "rest", accent |-> FALSE]

\* a variant of AudioTrigger that plays a chord whatever the slot holds
AudioTriggerNoNullCheck(beatNumber, seq) ==
    IF beatNumber < 0
    THEN [kind |-> "click", accent |-> (beatNumber = -4)]
    ELSE [kind |-> "chord", accent |-> FALSE]

\* what scheduleNote hands to the audio collaborator: a click, a chord, or
\* nothing at all ("rest") when the slot holds no voicing
AudioTrigger(beatNumber, seq) ==
    IF beatNumber < 0
    THEN [kind |-> "click", accent |-> (beatNumber = -4)]
    ELSE IF Truthy(At(seq, beatNumber))
         THEN [kind |-> "chord", accent |-> FALSE]
         ELSE [kind |-> "rest", accent |-> FALSE]

\* scheduleNote: the deferred highlight callback and the audio trigger;
\* calls keeps the arguments (beatNumber, time) of the calls of one pass
scheduleNote(s, seq) ==
    LET delay == Max(0, s.time)
        trigger == AudioTrigger(s.step, seq)
    IN  [s EXCEPT
           !.calls = Append(s.calls, [beatNumber |-> s.step, time |-> s.time]),
           !.pend = Append(s.pend, [beatNumber |-> s.step, delay |-> delay,
                                    stale |-> FALSE]),
           !.log = Append(s.log, [step |-> s.step, kind |-> trigger.kind,
                                  accent |-> trigger.accent])]

\* a variant of scheduler() whose window includes the note that lies the
\* whole look-ahead away
RECURSIVE schedulerWideWindow(_, _, _)
schedulerWideWindow(s, cl, seq) ==
    IF s.time <= scheduleAheadTime
    THEN schedulerWideWindow(nextNote(scheduleNote(s, seq), cl, seq), cl, seq)
    ELSE s

\* the while loop of scheduler()
RECURSIVE scheduler(_, _, _)
scheduler(s, cl, seq) ==
    IF s.time < scheduleAheadTime
    THEN scheduler(nextNote(scheduleNote(s, seq), cl, seq), cl, seq)
    ELSE s

\* the cursor the play effect sets before it starts the interval
StartStep(beat, repMode, repRange) ==
    IF beat = -1
    THEN -4
    ELSE IF HasRange(repMode, repRange)
         THEN IF beat < repRange.start \/ beat > repRange.end
              THEN repRange.start
              ELSE beat
         ELSE beat

\* window.setInterval: a fresh timer id
NewTimer(active) == CHOOSE id \in 1..(Cardinality(active) + 1) : id \notin active

\* a variant of StopEffect that leaves the highlight where it was
StopEffectKeepsHighlight(cleared) ==
    /\ timers' = cleared
    /\ timerIDRef' = 0
    /\ currentStepRef' = 0
    /\ UNCHANGED <<currentBeat, nextNoteTimeRef, timerClosure>>

\* the stop branch of the play effect
StopEffect(cleared) ==
    /\ timers' = cleared
    /\ timerIDRef' = 0
    /\ currentBeat' = -1
    /\ currentStepRef' = 0
    /\ UNCHANGED <<nextNoteTimeRef, timerClosure>>

\* a variant of PlayEffect whose pause branch leaves the interval running
PlayEffectPauseKeepsTimer(playing, paused, repMode, repRange, tempo) ==
    LET cleared == timers \ {timerIDRef}
    IN  IF playing
        THEN IF paused
             THEN UNCHANGED <<timers, timerIDRef, nextNoteTimeRef, currentStepRef,
                              currentBeat, timerClosure>>
             ELSE /\ nextNoteTimeRef' = StartOffset
                  /\ currentStepRef' = StartStep(currentBeat, repMode, repRange)
                  /\ timerIDRef' = NewTimer(cleared)
                  /\ timers' = cleared \cup {NewTimer(cleared)}
                  /\ timerClosure' = [bpm |-> tempo, isRepeatMode |-> repMode,
                                      repeatRange |-> repRange]
                  /\ UNCHANGED currentBeat
        ELSE StopEffect(cleared)

\* the effect on [isPlaying, isPaused]: the cleanup of its previous run, then
\* its body, for the props of the render that changed them
PlayEffect(playing, paused, repMode, repRange, tempo) ==
    LET cleared == timers \ {timerIDRef}
    IN  IF playing
        THEN IF paused
             THEN /\ timers' = cleared
                  /\ timerIDRef' = 0
                  /\ UNCHANGED <<nextNoteTimeRef, currentStepRef, currentBeat, timerClosure>>
             ELSE /\ nextNoteTimeRef' = StartOffset
                  /\ currentStepRef' = StartStep(currentBeat, repMode, repRange)
                  /\ timerIDRef' = NewTimer(cleared)
                  /\ timers' = cleared \cup {NewTimer(cleared)}
                  /\ timerClosure' = [bpm |-> tempo, isRepeatMode |-> repMode,
                                      repeatRange |-> repRange]
                  /\ UNCHANGED currentBeat
        ELSE StopEffect(cleared)

\* a render that sets isPlaying and isPaused: the effects run when either changed
SetTransport(playing, paused, repMode, repRange, tempo) ==
    /\ isPlaying' = playing
    /\ isPaused' = paused
    /\ isPlayingRef' = playing
    /\ IF playing # isPlaying \/ paused # isPaused
       THEN PlayEffect(playing, paused, repMode, repRange, tempo)
       ELSE UNCHANGED <<nextNoteTimeRef, currentStepRef, currentBeat, timerClosure,
                        timers, timerIDRef>>

\* App.tsx: the effect on [isPaused, currentBeat] that moves the active slot
\* to the highlighted beat while paused
SyncActiveSlot(paused, beat, slot) ==
    IF (paused # isPaused \/ beat # currentBeat) /\ paused /\ beat # -1
    THEN beat ELSE slot

\* how the observed run began: kind is "fresh" or "resume"; a resume keeps the
\* cursor it found frozen, the cursor the pause had left, and whether a manual
\* seek came in between
NoRun == [kind |-> "none", frozen |-> 0, cursorAtPause |-> 0, seek |-> FALSE]
NoPause == [cursor |-> 0, seek |-> FALSE]
\* a manual seek has moved the cursor the pause froze
Sought == [cursor |-> 0, seek |-> TRUE]
\* the dispatches the history keeps of a run: the count-in and the first step
\* of a fresh start, the first step after a resume
Observed(kind) == IF kind = "fresh" THEN MaxLog ELSE 1
MarkStale(q) == [k \in DOMAIN q |-> [q[k] EXCEPT !.stale = TRUE]]

\* onStop, as a part of the handlers that call it
StopPlayback(repMode, repRange) ==
    /\ SetTransport(FALSE, FALSE, repMode, repRange, bpm)
    /\ pending' = MarkStale(pending)
    /\ runLog' = <<>>
    /\ runInfo' = NoRun
    /\ pauseInfo' = NoPause


-----------------------------------------------------------------------------
(* music-theory.ts and voicing-generator.ts: the voicing generator.  Notes  *)
(* are note names without octave digits (getNoteIndex strips the digits).   *)

NOTES_SHARP == <<"C", "C#", "D", "D#", "E", "F", "F#", "G", "G#", "A", "A#", "B">>
NOTES_FLAT == <<"C", "Db", "D", "Eb", "E", "F", "Gb", "G", "Ab", "A", "Bb", "B">>

\* Array.prototype.indexOf: the 0-based index of the first occurrence, or -1
indexOf(arr, x) ==
    IF \E i \in 1..Len(arr) : arr[i] = x
    THEN (CHOOSE i \in 1..Len(arr) : arr[i] = x /\ \A j \in 1..(i - 1) : arr[j] # x) - 1
    ELSE -1

getNoteIndex(note) ==
    LET idx == indexOf(NOTES_SHARP, note)
    IN  IF idx = -1 THEN indexOf(NOTES_FLAT, note) ELSE idx

\* String.prototype.includes
Includes(str, sub) ==
    \E i \in 1..(Len(str) - Len(sub) + 1) : SubSeq(str, i, i + Len(sub) - 1) = sub
\* String.prototype.endsWith
EndsWith(str, sub) ==
    Len(str) >= Len(sub) /\ SubSeq(str, Len(str) - Len(sub) + 1, Len(str)) = sub
\* Array.prototype.includes
Has(arr, x) == \E i \in 1..Len(arr) : arr[i] = x

\* useFlats: whether a root and a quality are spelled with flats
useFlats(root, quality) ==
    LET minorish == Includes(quality, "Minor") \/ Includes(quality, "Diminished")
    IN  IF Includes(root, "b") THEN TRUE
        ELSE IF Includes(root, "#") THEN FALSE
        ELSE IF root = "F" THEN TRUE
        ELSE IF root = "C" THEN minorish \/ Includes(quality, "Dominant")
        ELSE IF root = "D" THEN minorish
        ELSE IF root = "G" THEN minorish
        ELSE IF minorish THEN root \in {"D", "G", "C", "F"}
        ELSE IF root = "F" THEN TRUE
        ELSE IF root = "C" /\ Includes(quality, "Dominant") THEN TRUE
        ELSE FALSE

\* transpose: the note a number of semitones above a root, spelled from the
\* flat or the sharp table; a root outside both tables comes back as it is
transpose(root, semitones, preferFlats) ==
    LET idx == getNoteIndex(root)
        newIdx == (idx + semitones) % 12
    IN  IF idx = -1 THEN root
        ELSE IF preferFlats THEN NOTES_FLAT[newIdx + 1] ELSE NOTES_SHARP[newIdx + 1]

\* the suffixes parseChord knows, with the quality and the intervals of each
ChordTable ==
    << [rest |-> {"", "maj", "M"}, quality |-> "Major", intervals |-> <<"1P", "3M", "5P">>],
       [rest |-> {"m", "min", "-"}, quality |-> "Minor", intervals |-> <<"1P", "3m", "5P">>],
       [rest |-> {"7", "dom7"}, quality |-> "Dominant 7", intervals |-> <<"1P", "3M", "5P", "7m">>],
       [rest |-> {"maj7", "M7", "Maj7"}, quality |-> "Major 7",
        intervals |-> <<"1P", "3M", "5P", "7M">>],
       [rest |-> {"maj7#4", "M7#4", "maj7(#4)", "M7(#4)"}, quality |-> "Major 7 #4",
        intervals |-> <<"1P", "3M", "4A", "7M">>],
       [rest |-> {"m7", "min7", "-7"}, quality |-> "Minor 7",
        intervals |-> <<"1P", "3m", "5P", "7m">>],
       [rest |-> {"m7b5", "m7(b5)", "min7(b5)", "min7(5b)", "ø", "ø7"},
        quality |-> "Half Diminished", intervals |-> <<"1P", "3m", "5d", "7m">>],
       [rest |-> {"dim", "dim7", "o", "o7"}, quality |-> "Diminished 7",
        intervals |-> <<"1P", "3m", "5d", "6M">>],
       [rest |-> {"6", "maj6", "M6"}, quality |-> "Major 6",
        intervals |-> <<"1P", "3M", "5P", "6M">>],
       [rest |-> {"m6", "min6", "-6"}, quality |-> "Minor 6",
        intervals |-> <<"1P", "3m", "5P", "6M">>],
       [rest |-> {"maj9", "M9", "Maj9"}, quality |-> "Major 9",
        intervals |-> <<"1P", "3M", "5P", "7M", "9M">>],
       [rest |-> {"9", "dom9"}, quality |-> "Dominant 9",
        intervals |-> <<"1P", "3M", "5P", "7m", "9M">>],
       [rest |-> {"7b9", "7(b9)", "dom7(b9)"}, quality |-> "Dominant 7(b9)",
        intervals |-> <<"1P", "3M", "5P", "7m", "9m">>],
       [rest |-> {"m7b9", "min7(b9)", "-7(b9)"}, quality |-> "Minor 7(b9)",
        intervals |-> <<"1P", "3m", "5P", "7m", "9m">>],
       [rest |-> {"m9", "min9", "-9"}, quality |-> "Minor 9",
        intervals |-> <<"1P", "3m", "5P", "7m", "9M">>],
       [rest |-> {"mmaj7", "minmaj7", "-maj7"}, quality |-> "Minor Major 7",
        intervals |-> <<"1P", "3m", "5P", "7M">>],
       [rest |-> {"maj7#5", "maj7(#5)", "M7#5", "M7(#5)"}, quality |-> "Augmented Major 7",
        intervals |-> <<"1P", "3M", "5A", "7M">>],
       [rest |-> {"dom7#5", "dom7(#5)", "7#5", "7(#5)"}, quality |-> "Augmented Dominant 7",
        intervals |-> <<"1P", "3M", "5A", "7m">>],
       [rest |-> {"dom7#11", "7#11", "dom7(#11)", "7(#11)"}, quality |-> "Dominant 7 #11",
        intervals |-> <<"1P", "3M", "5P", "7m", "11A">>],
       [rest |-> {"dom7sus4", "7sus4"}, quality |-> "Dominant 7 sus4",
        intervals |-> <<"1P", "4P", "5P", "7m">>],
       [rest |-> {"alt", "7alt", "dom7alt"}, quality |-> "Altered Dominant",
        intervals |-> <<"1P", "3M", "7m">>] >>

\* a variant of parseChord without the closing else: a suffix outside the
\* table keeps the initial quality and intervals
parseChordUnknownQuality(name) ==
    IF name = "" \/ SubSeq(name, 1, 1) \notin {"A", "B", "C", "D", "E", "F", "G"}
    THEN NULL
    ELSE LET rootLen == IF Len(name) >= 2 /\ SubSeq(name, 2, 2) \in {"#", "b"} THEN 2 ELSE 1
             root == SubSeq(name, 1, rootLen)
             rest == SubSeq(name, rootLen + 1, Len(name))
             hits == {i \in 1..Len(ChordTable) : rest \in ChordTable[i].rest}
         IN  IF hits = {}
             THEN [type |-> "object", root |-> root, quality |-> "Unknown",
                   intervals |-> <<"1P">>]
             ELSE LET first == CHOOSE i \in hits : \A j \in hits : i <= j
                  IN  [type |-> "object", root |-> root, quality |-> ChordTable[first].quality,
                       intervals |-> ChordTable[first].intervals]

\* parseChord: the match of /^([A-G][#b]?)(.*)$/, then the first branch of
\* the chain whose suffix is the rest; null when none is
parseChord(name) ==
    IF name = "" \/ SubSeq(name, 1, 1) \notin {"A", "B", "C", "D", "E", "F", "G"}
    THEN NULL
    ELSE LET rootLen == IF Len(name) >= 2 /\ SubSeq(name, 2, 2) \in {"#", "b"} THEN 2 ELSE 1
             root == SubSeq(name, 1, rootLen)
             rest == SubSeq(name, rootLen + 1, Len(name))
             hits == {i \in 1..Len(ChordTable) : rest \in ChordTable[i].rest}
         IN  IF hits = {} THEN NULL
             ELSE LET first == CHOOSE i \in hits : \A j \in hits : i <= j
                  IN  [type |-> "object", root |-> root, quality |-> ChordTable[first].quality,
                       intervals |-> ChordTable[first].intervals]

\* the switch of getNotesFromIntervals: semitones stays 0 for any other interval
Semitones(interval) ==
    CASE interval = "1P" -> 0
      [] interval = "3m" -> 3
      [] interval = "3M" -> 4
      [] interval = "4P" -> 5
      [] interval = "4A" -> 6
      [] interval = "5d" -> 6
      [] interval = "5P" -> 7
      [] interval = "5A" -> 8
      [] interval = "6M" -> 9
      [] interval = "7m" -> 10
      [] interval = "7M" -> 11
      [] interval = "9m" -> 13
      [] interval = "9M" -> 14
      [] interval = "9A" -> 15
      [] interval = "11A" -> 18
      [] OTHER -> 0

\* getNotesFromIntervals
getNotesFromIntervals(root, intervals) ==
    LET isMinor == Has(intervals, "3m")
        isDom == Has(intervals, "7m") /\ (Has(intervals, "3M") \/ Has(intervals, "4P"))
        isDim == Has(intervals, "5d")
        quality == IF isDim THEN "Diminished"
                   ELSE IF isDom THEN "Dominant"
                   ELSE IF isMinor THEN "Minor"
                   ELSE "Major"
        preferFlats == useFlats(root, quality)
    IN  IF getNoteIndex(root) = -1 THEN <<>>
        ELSE [i \in 1..Len(intervals) |->
                transpose(root, Semitones(intervals[i]),
                          IF EndsWith(intervals[i], "A") THEN FALSE ELSE preferFlats)]

\* formatInterval: the label of an interval, the interval itself when it has none
formatInterval(interval) ==
    CASE interval = "1P" -> "1"
      [] interval = "3m" -> "b3"
      [] interval = "3M" -> "3"
      [] interval = "4P" -> "4"
      [] interval = "4A" -> "#4"
      [] interval = "5d" -> "b5"
      [] interval = "5P" -> "5"
      [] interval = "5A" -> "#5"
      [] interval = "6M" -> "6"
      [] interval = "7m" -> "b7"
      [] interval = "7M" -> "7"
      [] interval = "9m" -> "b9"
      [] interval = "9M" -> "9"
      [] interval = "9A" -> "#9"
      [] interval = "11P" -> "11"
      [] interval = "11A" -> "#11"
      [] interval = "13M" -> "13"
      [] OTHER -> interval

\* a variant of getIntervalMap that keeps the label a note got first
getIntervalMapFirstWins(root, intervals) ==
    LET notes == getNotesFromIntervals(root, intervals)
        written == {i \in 1..Len(notes) : intervals[i] # ""}
    IN  [n \in {notes[i] : i \in written} |->
            formatInterval(intervals[CHOOSE i \in written :
                /\ notes[i] = n
                /\ \A j \in written : notes[j] = n => j >= i])]

\* getIntervalMap: the object keyed by note name, written in the order of
\* the notes for every interval that is not the empty string; a note that
\* comes twice keeps the label written last
getIntervalMap(root, intervals) ==
    LET notes == getNotesFromIntervals(root, intervals)
        written == {i \in 1..Len(notes) : intervals[i] # ""}
    IN  [n \in {notes[i] : i \in written} |->
            formatInterval(intervals[CHOOSE i \in written :
                /\ notes[i] = n
                /\ \A j \in written : notes[j] = n => j <= i])]

openStringIndices == <<4, 9, 2, 7, 11, 4>>

\* a variant of getNoteAtFret with the B string tuned a semitone flat
getNoteAtFretFlatB(stringIdx, fret) ==
    NOTES_SHARP[((<<4, 9, 2, 7, 10, 4>>[stringIdx + 1] + fret) % 12) + 1]

\* getNoteAtFret: the note name sounded by a fret of a string (0 = low E)
getNoteAtFret(stringIdx, fret) ==
    NOTES_SHARP[((openStringIndices[stringIdx + 1] + fret) % 12) + 1]

isSameNote(n1, n2) == getNoteIndex(n1) = getNoteIndex(n2)

\* the four rotations of getInversions
getInversions(baseNotes) ==
    << <<baseNotes[1], baseNotes[2], baseNotes[3], baseNotes[4]>>,
       <<baseNotes[2], baseNotes[3], baseNotes[4], baseNotes[1]>>,
       <<baseNotes[3], baseNotes[4], baseNotes[1], baseNotes[2]>>,
       <<baseNotes[4], baseNotes[1], baseNotes[2], baseNotes[3]>> >>

\* [...notes].sort((a, b) => getNoteIndex(a) - getNoteIndex(b)): a stable sort
RECURSIVE insertNote(_, _)
insertNote(sorted, n) ==
    IF sorted = <<>> THEN <<n>>
    ELSE IF getNoteIndex(Head(sorted)) <= getNoteIndex(n)
         THEN <<Head(sorted)>> \o insertNote(Tail(sorted), n)
         ELSE <<n>> \o sorted

RECURSIVE sortNotes(_)
sortNotes(notes) ==
    IF notes = <<>> THEN <<>>
    ELSE insertNote(sortNotes(SubSeq(notes, 1, Len(notes) - 1)), notes[Len(notes)])

\* cartesian: the reduce with flatMap, the first array the most significant
RECURSIVE cartesian(_)
cartesian(arrays) ==
    IF arrays = <<>> THEN << <<>> >>
    ELSE LET a == cartesian(SubSeq(arrays, 1, Len(arrays) - 1))
             b == arrays[Len(arrays)]
         IN  [i \in 1..(Len(a) * Len(b)) |->
                Append(a[((i - 1) \div Len(b)) + 1], b[((i - 1) % Len(b)) + 1])]

\* a variant of positionsOn that also searches the open string
positionsOnWithOpen(s, target, lastFret) ==
    SelectSeq([j \in 1..(lastFret + 1) |-> [string |-> s, fret |-> j - 1, note |-> target]],
              LAMBDA p : isSameNote(getNoteAtFret(s, p.fret), target))

\* the frets of string s, from the first fret searched to the last, that
\* sound the target note
positionsOn(s, target, lastFret) ==
    SelectSeq([f \in 1..lastFret |-> [string |-> s, fret |-> f, note |-> target]],
              LAMBDA p : isSameNote(getNoteAtFret(s, p.fret), target))

minFret(combo) == CHOOSE m \in {combo[k].fret : k \in DOMAIN combo} :
                      \A k \in DOMAIN combo : m <= combo[k].fret
maxFret(combo) == CHOOSE m \in {combo[k].fret : k \in DOMAIN combo} :
                      \A k \in DOMAIN combo : m >= combo[k].fret

\* const limit = (type === 'Drop2_4') ? 5 : 4
spanLimit(type) == IF type = "Drop2_4" THEN 5 ELSE 4

\* the signature string of a combination: its string-fret pairs in order
signature(combo) == [k \in DOMAIN combo |-> <<combo[k].string, combo[k].fret>>]

\* the tail shared by tryVoicing and tryShape: keep the combinations within the
\* span limit, sort them by lowest fret (a stable sort, so that the first of
\* the lowest ones stays first), take the first and push it unless a voicing
\* with the same signature is there already
pushBest(voicings, name, possiblePositions, limit) ==
    LET validCombinations ==
            SelectSeq(cartesian(possiblePositions),
                      LAMBDA combo : maxFret(combo) - minFret(combo) <= limit)
    IN  IF validCombinations = <<>> THEN voicings
        ELSE LET lowest == CHOOSE m \in {minFret(validCombinations[i]) :
                                           i \in DOMAIN validCombinations} :
                               \A i \in DOMAIN validCombinations :
                                   m <= minFret(validCombinations[i])
                 first == CHOOSE i \in DOMAIN validCombinations :
                              /\ minFret(validCombinations[i]) = lowest
                              /\ \A j \in 1..(i - 1) : minFret(validCombinations[j]) # lowest
                 bestCombo == validCombinations[first]
             IN  IF \E v \in DOMAIN voicings :
                        signature(voicings[v].positions) = signature(bestCombo)
                 THEN voicings
                 ELSE Append(voicings, [name |-> name, positions |-> bestCombo])

\* tryVoicing: frets 1 to 18 on the four strings of the set
tryVoicing(voicings, targetNotes, name, stringSet, type) ==
    pushBest(voicings, name,
             [k \in 1..4 |-> positionsOn(stringSet[k], targetNotes[k], 18)],
             spanLimit(type))

\* tryShape: frets 1 to 16 on the three strings of the shape, span at most 4
tryShape(voicings, name, targetNotes, stringSet) ==
    pushBest(voicings, name,
             [k \in 1..3 |-> positionsOn(stringSet[k], targetNotes[k], 16)],
             4)

\* the shapes of generateShellVoicings, in the order they are tried
shellShapes(notes, type) ==
    LET root == notes[1]
        third == notes[2]
        seventh == notes[3]
    IN  IF type = "FreddieGreen"
        THEN << [name |-> "FG Style (R-7-3)", notes |-> <<root, seventh, third>>, strings |-> <<0, 2, 3>>],
                [name |-> "FG Style (R-7-3) A", notes |-> <<root, seventh, third>>, strings |-> <<1, 2, 3>>],
                [name |-> "FG Style (R-3-7) A", notes |-> <<root, third, seventh>>, strings |-> <<1, 2, 3>>] >>
        ELSE << [name |-> "Shell R6 (R-7-3)", notes |-> <<root, seventh, third>>, strings |-> <<0, 2, 3>>],
                [name |-> "Shell R6 (R-3-7)", notes |-> <<root, third, seventh>>, strings |-> <<0, 2, 3>>],
                [name |-> "Shell R5 (R-3-7)", notes |-> <<root, third, seventh>>, strings |-> <<1, 2, 3>>],
                [name |-> "Shell R5 (R-7-3)", notes |-> <<root, seventh, third>>, strings |-> <<1, 2, 3>>],
                [name |-> "Shell R5 (R-7-3) High", notes |-> <<root, seventh, third>>, strings |-> <<1, 3, 4>>] >>

RECURSIVE tryShapes(_, _)
tryShapes(voicings, shapes) ==
    IF shapes = <<>> THEN voicings
    ELSE tryShapes(tryShape(voicings, Head(shapes).name, Head(shapes).notes, Head(shapes).strings),
                   Tail(shapes))

generateShellVoicings(notes, type) == tryShapes(<<>>, shellShapes(notes, type))

\* the voices of an inversion as the drop of the type places them on the strings
dropTarget(inv, type) ==
    IF type = "Drop2" THEN <<inv[3], inv[1], inv[2], inv[4]>>
    ELSE IF type = "Drop3" THEN <<inv[2], inv[1], inv[3], inv[4]>>
    ELSE <<inv[1], inv[3], inv[2], inv[4]>>

\* a variant of stringSetOf that always takes the string set of the type
stringSetOfType(type, stringSetOverride) ==
    IF type = "Drop2" THEN <<2, 3, 4, 5>>
    ELSE IF type = "Drop3" THEN <<0, 2, 3, 4>>
    ELSE <<0, 1, 2, 3>>

\* stringSetOverride || the string set of the type
stringSetOf(type, stringSetOverride) ==
    IF Truthy(stringSetOverride) THEN stringSetOverride.strings
    ELSE IF type = "Drop2" THEN <<2, 3, 4, 5>>
    ELSE IF type = "Drop3" THEN <<0, 2, 3, 4>>
    ELSE <<0, 1, 2, 3>>

\* the calls of tryVoicing in the order generateVoicings makes them: the drops of
\* the sorted inversions, the drops of the input inversions, the close forms of both
dropJobs(notes, type) ==
    LET inputInversions == getInversions(notes)
        primaryInversions == getInversions(sortNotes(notes))
        order == IF type = "Drop2" THEN <<2, 3, 0, 1>>
                 ELSE IF type = "Drop3" THEN <<3, 0, 1, 2>>
                 ELSE <<0, 1, 2, 3>>
        standardNames == <<"Root Position", "1st Inversion", "2nd Inversion", "3rd Inversion">>
        closeNames == <<"Close Root Pos", "Close 1st Inv", "Close 2nd Inv", "Close 3rd Inv">>
    IN  [i \in 1..4 |-> [notes |-> dropTarget(primaryInversions[order[i] + 1], type),
                         name |-> standardNames[i]]]
        \o [i \in 1..4 |-> [notes |-> dropTarget(inputInversions[i], type),
                            name |-> type \o " Var"]]
        \o [i \in 1..4 |-> [notes |-> primaryInversions[i], name |-> closeNames[i]]]
        \o [i \in 1..4 |-> [notes |-> inputInversions[i], name |-> "Close Var"]]

RECURSIVE tryVoicings(_, _, _, _)
tryVoicings(voicings, jobs, stringSet, type) ==
    IF jobs = <<>> THEN voicings
    ELSE tryVoicings(tryVoicing(voicings, Head(jobs).notes, Head(jobs).name, stringSet, type),
                     Tail(jobs), stringSet, type)

\* a variant of generateVoicings that only turns away shells of fewer than
\* three notes
generateVoicingsLooseCount(notes, type, stringSetOverride) ==
    IF type \in {"Drop2", "Drop3", "Drop2_4"}
    THEN IF Len(notes) # 4 THEN <<>>
         ELSE tryVoicings(<<>>, dropJobs(notes, type), stringSetOf(type, stringSetOverride), type)
    ELSE IF Len(notes) < 3 THEN <<>>
         ELSE generateShellVoicings(notes, type)

\* generateVoicings: the length checks, then the shells or the drop passes
generateVoicings(notes, type, stringSetOverride) ==
    IF type \in {"Drop2", "Drop3", "Drop2_4"}
    THEN IF Len(notes) # 4 THEN <<>>
         ELSE tryVoicings(<<>>, dropJobs(notes, type), stringSetOf(type, stringSetOverride), type)
    ELSE IF Len(notes) # 3 THEN <<>>
         ELSE generateShellVoicings(notes, type)

(* Inputs of the voicing generator *)

\* the notes handed to the generator: chords spelled from every root with
\* sharps or with flats, in the order getNotesFromIntervals gives them (a
\* 7#11 without its fifth is not in pitch order), three-note shells, lists
\* that are too short, too long or empty, a doubled note, and a root name
\* outside both tables
ChordShapes ==
    { <<0, 4, 7, 11>>, <<0, 4, 7, 10>>, <<0, 3, 7, 10>>, <<0, 3, 6, 9>>, <<0, 4, 10, 6>>,
      <<0, 4, 11>>, <<0, 3, 10>>, <<0, 4>>, <<0, 4, 7, 10, 1>>, <<>> }
Spell(root, shape, names) == [k \in DOMAIN shape |-> names[((root + shape[k]) % 12) + 1]]
NoteInputs ==
    { Spell(root, shape, names) :
        root \in 0..11, shape \in ChordShapes, names \in {NOTES_SHARP, NOTES_FLAT} }
    \cup { <<"C", "C", "E", "G">>, <<"Cb", "Eb", "Gb", "Bb">> }
VoicingTypes == {"Drop2", "Drop3", "Drop2_4", "Shell", "FreddieGreen"}
\* the string sets App.tsx passes, no override, and a set that names a string twice
Strings(set) == [type |-> "array", strings |-> set]
OverrideInputs ==
    { UNDEFINED, Strings(<<1, 2, 3, 4>>), Strings(<<1, 3, 4, 5>>), Strings(<<2, 2, 3, 4>>) }
GenInputs ==
    { [type |-> "call", notes |-> notes, voicingType |-> type, stringSetOverride |-> override] :
        notes \in NoteInputs, type \in VoicingTypes, override \in OverrideInputs }

-----------------------------------------------------------------------------
(* The progression generator *)

AVAILABLE_KEYS == <<"C", "Db", "D", "Eb", "E", "F", "Gb", "G", "Ab", "A", "Bb", "B">>

\* a list of n copies of x: Array(n).fill(x)
Fill(n, x) == [i \in 1..n |-> x]

\* PROGRESSIONS: semitones above the key, suffixes, and the length of each
\* chord counted in half measures (measures: 1 is 2, measures: 0.5 is 1)
PROGRESSIONS ==
    [ MajorII_V_I |->
        [degrees |-> <<2, 7, 0, 0>>, suffixes |-> <<"m7", "7", "maj7", "maj7">>,
         halfMeasures |-> <<2, 2, 2, 2>>],
      MinorII_V_I |->
        [degrees |-> <<2, 7, 0, 0>>, suffixes |-> <<"m7b5", "7alt", "m7", "m7">>,
         halfMeasures |-> <<2, 2, 2, 2>>],
      MajorI_vi_ii_V |->
        [degrees |-> <<0, 9, 2, 7>>, suffixes |-> <<"maj7", "m7", "m7", "7">>,
         halfMeasures |-> <<2, 2, 2, 2>>],
      Major_iii_vi_ii_V |->
        [degrees |-> <<4, 9, 2, 7>>, suffixes |-> <<"m7", "m7", "m7", "7">>,
         halfMeasures |-> <<2, 2, 2, 2>>],
      MinorTurnaround |->
        [degrees |-> <<0, 8, 2, 7>>, suffixes |-> <<"m7", "maj7", "m7b5", "7alt">>,
         halfMeasures |-> <<2, 2, 2, 2>>],
      RhythmChangesBridge |->
        [degrees |-> <<4, 9, 2, 7>>, suffixes |-> <<"7", "7", "7", "7">>,
         halfMeasures |-> <<2, 2, 2, 2>>],
      MajorBlues |->
        [degrees |-> <<0, 5, 0, 0, 5, 6, 0, 9, 2, 7, 0, 7>>,
         suffixes |-> <<"7", "7", "7", "7", "7", "dim7", "7", "7", "m7", "7", "7", "7">>,
         halfMeasures |-> Fill(12, 2)],
      MinorBlues |->
        [degrees |-> <<0, 5, 0, 0, 5, 5, 0, 0, 2, 7, 0, 7>>,
         suffixes |-> <<"m7", "m7", "m7", "m7", "m7", "m7", "m7", "m7",
                        "m7b5", "7alt", "m7", "7alt">>,
         halfMeasures |-> Fill(12, 2)],
      RhythmChanges |->
        [degrees |-> <<0, 9, 2, 7, 0, 9, 2, 7, 0, 0, 5, 6, 0, 7, 0, 7>>,
         suffixes |-> <<"maj7", "m7", "m7", "7", "maj7", "m7", "m7", "7",
                        "maj7", "7", "maj7", "dim7", "maj7", "7", "maj7", "7">>,
         halfMeasures |-> Fill(16, 1)] ]

\* a variant of getChordsForProgression that gives every chord four beats
getChordsForProgressionFourBeats(type, keyRoot) ==
    LET prog == PROGRESSIONS[type]
        preferFlats == ~Includes(keyRoot, "#")
    IN  [i \in 1..Len(prog.degrees) |->
            LET root == transpose(keyRoot, prog.degrees[i], preferFlats)
            IN  [name |-> root \o prog.suffixes[i], root |-> root, durationBeats |-> 4]]

\* getChordsForProgression: the chords of a progression in a key;
\* durationBeats is measures * 4
getChordsForProgression(type, keyRoot) ==
    LET prog == PROGRESSIONS[type]
        preferFlats == ~Includes(keyRoot, "#")
    IN  [i \in 1..Len(prog.degrees) |->
            LET root == transpose(keyRoot, prog.degrees[i], preferFlats)
            IN  [name |-> root \o prog.suffixes[i], root |-> root,
                 durationBeats |-> prog.halfMeasures[i] * 2]]

\* the sums of the frets of three positions for which the double
\* Math.abs(sum / 3 - 5) comes out above that of the sum at the same distance
\* on the other side of fifteen
RoundedUp == {1, 4, 8, 11, 20, 23, 25, 28}

RECURSIVE fretSum(_)
fretSum(positions) ==
    IF positions = <<>> THEN 0 ELSE Head(positions).fret + fretSum(Tail(positions))

\* Math.abs(getAverageFret(v) - 5) as a number that orders the voicings of
\* one list, which all have as many positions, as the doubles do: in sixths
\* of a fret and a half step for the rounding with three positions, in
\* quarters of a fret with four
centerDistance(v) ==
    LET sum == fretSum(v.positions)
    IN  IF Len(v.positions) = 3
        THEN 2 * (IF sum >= 15 THEN sum - 15 ELSE 15 - sum)
             + (IF sum \in RoundedUp THEN 1 ELSE 0)
        ELSE IF sum >= 20 THEN sum - 20 ELSE 20 - sum

\* [...positions].sort((a, b) => a.string - b.string), a stable sort
sortByString(positions) ==
    LET rank(k) == Cardinality({j \in DOMAIN positions :
                        \/ positions[j].string < positions[k].string
                        \/ positions[j].string = positions[k].string /\ j < k}) + 1
    IN  [r \in DOMAIN positions |-> positions[CHOOSE k \in DOMAIN positions : rank(k) = r]]

RECURSIVE fretDifferences(_, _)
fretDifferences(p1, p2) ==
    IF p1 = <<>> THEN 0
    ELSE (IF Head(p1).fret >= Head(p2).fret THEN Head(p1).fret - Head(p2).fret
          ELSE Head(p2).fret - Head(p1).fret)
         + fretDifferences(Tail(p1), Tail(p2))

\* getDistance
getDistance(v1, v2) ==
    LET p1 == sortByString(v1.positions)
        p2 == sortByString(v2.positions)
    IN  IF Len(p1) # Len(p2) THEN 100 ELSE fretDifferences(p1, p2)

\* the notes handed to generateVoicings for a parsed chord
notesFor(parsed, voicingType) ==
    LET notes == IF parsed.quality = "Altered Dominant"
                 THEN getNotesFromIntervals(parsed.root, <<"1P", "3M", "7m", "9m">>)
                 ELSE getNotesFromIntervals(parsed.root, parsed.intervals)
    IN  IF voicingType \in {"Shell", "FreddieGreen"}
        THEN IF parsed.quality = "Altered Dominant"
             THEN IF Len(notes) >= 3 THEN <<notes[1], notes[2], notes[3]>> ELSE notes
             ELSE IF Len(notes) >= 4 THEN <<notes[1], notes[2], notes[4]>> ELSE notes
        ELSE IF Len(notes) = 5 THEN <<notes[1], notes[2], notes[4], notes[5]>> ELSE notes

\* the candidates of a chord: its voicings with the interval map attached
candidatesFor(ch, voicingType, stringSet) ==
    LET parsed == parseChord(ch.name)
    IN  IF parsed = NULL THEN <<>>
        ELSE LET candidates == generateVoicings(notesFor(parsed, voicingType), voicingType,
                                                stringSet)
                 iMap == getIntervalMap(parsed.root, parsed.intervals)
             IN  [c \in DOMAIN candidates |->
                    [name |-> candidates[c].name, positions |-> candidates[c].positions,
                     intervalMap |-> iMap]]

\* the first element of a list sorted by sort(), which is stable: the first
\* candidate with the least distance to fret five; best is the first of the
\* least among the candidates before index
RECURSIVE closestToFiveFrom(_, _, _)
closestToFiveFrom(candidates, index, best) ==
    IF index > Len(candidates) THEN best
    ELSE closestToFiveFrom(candidates, index + 1,
                           IF centerDistance(candidates[index]) < centerDistance(best)
                           THEN candidates[index] ELSE best)

closestToFive(candidates) == closestToFiveFrom(candidates, 2, candidates[1])

\* the first candidate with the least distance to the voicing before
RECURSIVE closestToFrom(_, _, _, _, _)
closestToFrom(prev, candidates, index, best, bestDistance) ==
    IF index > Len(candidates) THEN best
    ELSE LET distance == getDistance(prev, candidates[index])
         IN  IF distance < bestDistance
             THEN closestToFrom(prev, candidates, index + 1, candidates[index], distance)
             ELSE closestToFrom(prev, candidates, index + 1, best, bestDistance)

\* a variant of closestTo that ignores the voicing before and picks by the
\* distance to fret five
closestToCenter(prev, candidates) == closestToFive(candidates)

closestTo(prev, candidates) ==
    closestToFrom(prev, candidates, 2, candidates[1], getDistance(prev, candidates[1]))

\* the voice leading selection: one voicing or null for each chord, the
\* first by its distance to fret five, each later one by its distance to the
\* voicing before it, or to fret five when there is none before it
RECURSIVE selectVoicings(_, _, _, _)
selectVoicings(selectedVoicings, chData, voicingType, stringSet) ==
    IF Len(selectedVoicings) = Len(chData) THEN selectedVoicings
    ELSE LET currentCandidates ==
                 candidatesFor(chData[Len(selectedVoicings) + 1], voicingType, stringSet)
             prev == IF selectedVoicings = <<>> THEN NULL
                     ELSE selectedVoicings[Len(selectedVoicings)]
             chosen == IF currentCandidates = <<>> THEN NULL
                       ELSE IF prev # NULL THEN closestTo(prev, currentCandidates)
                       ELSE closestToFive(currentCandidates)
         IN  selectVoicings(Append(selectedVoicings, chosen), chData, voicingType, stringSet)

\* a variant of fillSlots that lets the voicings keep their inversion names
RECURSIVE fillSlotsKeepName(_, _, _, _, _)
fillSlotsKeepName(finalSeq, slotIndex, chData, selectedVoicings, index) ==
    IF index > Len(selectedVoicings) THEN finalSeq
    ELSE LET v == selectedVoicings[index]
             last == Min(slotIndex + chData[index].durationBeats, SeqSlots) - 1
         IN  fillSlotsKeepName(IF v = NULL THEN finalSeq
                               ELSE Arr(SeqSlots,
                                        [slot \in slotIndex..last |-> v] @@ finalSeq.items),
                               last + 1, chData, selectedVoicings, index + 1)

\* a variant of fillSlots in which a chord without a voicing takes no slots
RECURSIVE fillSlotsSkipNull(_, _, _, _, _)
fillSlotsSkipNull(finalSeq, slotIndex, chData, selectedVoicings, index) ==
    IF index > Len(selectedVoicings) THEN finalSeq
    ELSE LET v == selectedVoicings[index]
             duration == chData[index].durationBeats
             last == Min(slotIndex + duration, SeqSlots) - 1
             renamed == [name |-> chData[index].name, positions |-> v.positions,
                         intervalMap |-> v.intervalMap]
         IN  IF v = NULL
             THEN fillSlotsSkipNull(finalSeq, slotIndex, chData, selectedVoicings, index + 1)
             ELSE fillSlotsSkipNull(Arr(SeqSlots,
                                        [slot \in slotIndex..last |-> renamed] @@ finalSeq.items),
                                    last + 1, chData, selectedVoicings, index + 1)

\* the loop that fills the slots: each chord takes durationBeats slots from
\* slotIndex on while slots are left, a chord without a voicing leaves its
\* slots null
RECURSIVE fillSlots(_, _, _, _, _)
fillSlots(finalSeq, slotIndex, chData, selectedVoicings, index) ==
    IF index > Len(selectedVoicings) THEN finalSeq
    ELSE LET v == selectedVoicings[index]
             duration == chData[index].durationBeats
             last == Min(slotIndex + duration, SeqSlots) - 1
             renamed == [name |-> chData[index].name, positions |-> v.positions,
                         intervalMap |-> v.intervalMap]
         IN  fillSlots(IF v = NULL THEN finalSeq
                       ELSE Arr(SeqSlots,
                                [slot \in slotIndex..last |-> renamed] @@ finalSeq.items),
                       last + 1, chData, selectedVoicings, index + 1)

\* generateProgressionSequence
generateProgressionSequence(type, keyRoot, voicingType, stringSet) ==
    LET chData == getChordsForProgression(type, keyRoot)
    IN  IF chData = <<>> THEN Arr(0, <<>>)
        ELSE fillSlots(EmptySequence, 0, chData,
                       selectVoicings(<<>>, chData, voicingType, stringSet), 1)

\* ProgressionModal: the string set of a voicing type and a choice of the
\* string set menu, which keeps its value when the type changes
getStringSet(vType, set) ==
    IF vType = "Drop2" /\ set = "Top" THEN <<2, 3, 4, 5>>
    ELSE IF vType = "Drop2" /\ set = "Middle" THEN <<1, 2, 3, 4>>
    ELSE IF vType = "Drop2" /\ set = "Bottom" THEN <<0, 1, 2, 3>>
    ELSE IF vType = "Drop3" /\ set = "Top" THEN <<1, 3, 4, 5>>
    ELSE IF vType = "Drop3" /\ set = "Bottom" THEN <<0, 2, 3, 4>>
    ELSE IF vType = "Drop2_4" /\ set = "Low" THEN <<0, 1, 2, 4>>
    ELSE IF vType = "Drop2_4" /\ set = "High" THEN <<1, 2, 3, 5>>
    ELSE IF vType \in {"Drop2", "Drop3", "Drop2_4"} THEN <<2, 3, 4, 5>>
    ELSE <<>>

StringSetChoices == {"Top", "Middle", "Bottom", "Low", "High"}

\* the keys the calls are made in: the key of the examples and the key
\* whose altered dominant is C7alt
KeyInputs == {"C", "F"}

\* the calls the library modal can make in these keys
ProgressionInputs ==
    { [type |-> "progression", progType |-> progType, key |-> key,
       voicingType |-> vType, stringSet |-> Strings(getStringSet(vType, set))] :
        progType \in DOMAIN PROGRESSIONS, key \in KeyInputs,
        vType \in VoicingTypes, set \in StringSetChoices }

-----------------------------------------------------------------------------
(* The state of a freshly opened page *)

\* App.tsx: the auto-load effect pads or cuts a valid stored sequence to 160
AutoLoad(saved) ==
    IF Truthy(saved) /\ saved.type # "unparsable" /\ validateSequence(saved)
    THEN Arr(SeqSlots, [i \in {k \in DOMAIN saved.items : k < SeqSlots /\ Truthy(saved.items[k])} |->
                          saved.items[i]])
    ELSE EmptySequence

NoCall == [type |-> "none"]
NotReturned == [type |-> "none"]

SchedulerInit ==
    /\ \E saved \in StoredInputs : sequence = AutoLoad(saved)
    /\ activeSlot = -1          \* null
    /\ isPlaying = FALSE
    /\ isPaused = FALSE
    /\ isRepeatMode = FALSE
    /\ repeatRange = NoRange
    /\ bpm = InitialBpm
    /\ copyMode = "idle"
    /\ copyStart = -1           \* null
    /\ copyEnd = -1             \* null
    /\ repeatSelMode = "idle"
    /\ repeatSelStart = -1      \* null
    /\ currentBeat = -1
    /\ nextNoteTimeRef = 0
    /\ currentStepRef = 0
    /\ timerIDRef = 0           \* null
    /\ isPlayingRef = FALSE
    /\ timers = {}
    /\ timerClosure = [bpm |-> InitialBpm, isRepeatMode |-> FALSE, repeatRange |-> NoRange]
    /\ pending = <<>>
    /\ runLog = <<>>
    /\ runInfo = NoRun
    /\ pauseInfo = NoPause
    /\ gestures = 0

Init ==
    /\ SchedulerInit
    /\ genIn = NoCall
    /\ genOut = NotReturned

-----------------------------------------------------------------------------
(* Transport: the buttons of Sequencer.tsx and the callbacks of App.tsx *)

\* onPlay: setIsPlaying(true); setIsPaused(false)
StartPlayback(repMode, repRange) ==
    /\ SetTransport(TRUE, FALSE, repMode, repRange, bpm)
    /\ runLog' = <<>>
    /\ runInfo' = [kind |-> "fresh", frozen |-> 0, cursorAtPause |-> 0, seek |-> FALSE]
    /\ pauseInfo' = NoPause
    /\ UNCHANGED pending

\* onPause: setIsPaused(true)
PausePlayback ==
    /\ SetTransport(TRUE, TRUE, isRepeatMode, repeatRange, bpm)
    /\ activeSlot' = SyncActiveSlot(TRUE, currentBeat, activeSlot)
    /\ pauseInfo' = [cursor |-> currentStepRef, seek |-> FALSE]
    /\ runLog' = <<>>
    /\ runInfo' = NoRun
    /\ UNCHANGED pending

\* the Play button, shown while stopped
Play ==
    /\ ~isPlaying
    /\ StartPlayback(isRepeatMode, repeatRange)
    /\ UNCHANGED <<sequence, activeSlot, isRepeatMode, repeatRange, bpm, uiVars,
                   gestures, genVars>>

\* the Stop button, shown while playing
Stop ==
    /\ isPlaying
    /\ StopPlayback(isRepeatMode, repeatRange)
    /\ UNCHANGED <<sequence, activeSlot, isRepeatMode, repeatRange, bpm, uiVars,
                   gestures, genVars>>

\* the Pause button, shown while playing and not paused
Pause ==
    /\ isPlaying /\ ~isPaused
    /\ PausePlayback
    /\ UNCHANGED <<sequence, isRepeatMode, repeatRange, bpm, uiVars, gestures, genVars>>

\* the Resume button, shown while paused: setIsPaused(false)
Resume ==
    /\ isPlaying /\ isPaused
    /\ SetTransport(TRUE, FALSE, isRepeatMode, repeatRange, bpm)
    /\ runLog' = <<>>
    /\ runInfo' = [kind |-> "resume", frozen |-> currentStepRef,
                   cursorAtPause |-> pauseInfo.cursor, seek |-> pauseInfo.seek]
    /\ pauseInfo' = NoPause
    /\ UNCHANGED <<sequence, activeSlot, isRepeatMode, repeatRange, bpm, uiVars,
                   pending, gestures, genVars>>

\* stepTo, called by the previous/next beat buttons, which are shown while paused
stepTo(step) ==
    LET safeStep == Max(0, Min(step, LastSlot))
    IN  /\ isPlaying /\ isPaused
        /\ currentStepRef' = safeStep
        /\ currentBeat' = safeStep
        /\ activeSlot' = SyncActiveSlot(isPaused, safeStep, activeSlot)
        /\ pauseInfo' = Sought
        /\ UNCHANGED <<sequence, isPlaying, isPaused, isRepeatMode, repeatRange, bpm,
                       uiVars, nextNoteTimeRef, timerIDRef, isPlayingRef, envVars,
                       runLog, runInfo, gestures, genVars>>

\* handleBpmCommit: parse, fall back to 90, clamp to [40, 160]
handleBpmCommit(parsed) ==
    LET val == IF parsed.nan THEN FallbackBpm ELSE parsed.val
        clamped == Min(MaxBpm, Max(MinBpm, val))
    IN  /\ gestures < MaxGestures
        /\ gestures' = gestures + 1
        /\ bpm' = clamped
        /\ UNCHANGED <<sequence, activeSlot, isPlaying, isPaused, isRepeatMode,
                       repeatRange, uiVars, hookVars, envVars, runLog, runInfo,
                       pauseInfo, genVars>>

-----------------------------------------------------------------------------
(* The browser: the interval timer, the deferred callbacks and the clock *)

\* one firing of a live interval: scheduler() of the render that started it
SchedulerPass ==
    /\ timers # {}
    /\ LET s == scheduler([time |-> nextNoteTimeRef, step |-> currentStepRef,
                           pend |-> pending, log |-> runLog, calls |-> <<>>],
                          timerClosure, sequenceRef)
       IN  /\ nextNoteTimeRef' = s.time
           /\ currentStepRef' = s.step
           /\ pending' = s.pend
           /\ IF runInfo.kind = "none"
              THEN UNCHANGED <<runLog, runInfo>>
              ELSE IF Len(s.log) > Observed(runInfo.kind)
                   THEN runLog' = <<>> /\ runInfo' = NoRun
                   ELSE runLog' = s.log /\ UNCHANGED runInfo
    /\ UNCHANGED <<appVars, uiVars, currentBeat, timerIDRef, isPlayingRef,
                   timers, timerClosure, pauseInfo, gestures, genVars>>

\* the setTimeout callback of scheduleNote, once its delay has passed
HighlightCallback ==
    /\ pending # <<>>
    /\ Head(pending).delay <= 0
    /\ LET beatNumber == Head(pending).beatNumber
           beat == IF ~isPlayingRef THEN currentBeat
                   ELSE IF beatNumber >= 0 THEN beatNumber ELSE -1
       IN  /\ currentBeat' = beat
           /\ activeSlot' = SyncActiveSlot(isPaused, beat, activeSlot)
    /\ pending' = Tail(pending)
    /\ UNCHANGED <<sequence, isPlaying, isPaused, isRepeatMode, repeatRange, bpm,
                   uiVars, nextNoteTimeRef, currentStepRef, timerIDRef, isPlayingRef,
                   timers, timerClosure, histVars, genVars>>

\* the audio clock advances to the firing of a live interval at which the
\* next note is inside the look-ahead window, up to MaxLag ticks after the
\* note entered it.  The pass of the present instant has run and the due
\* callbacks have fired.  While no interval is live no code reads the clock.
Tick ==
    /\ timers # {}
    /\ pending = <<>>
    /\ nextNoteTimeRef >= scheduleAheadTime
    /\ \E lag \in 0..MaxLag : nextNoteTimeRef' = scheduleAheadTime - 1 - lag
    /\ UNCHANGED <<appVars, uiVars, currentBeat, currentStepRef, timerIDRef,
                   isPlayingRef, envVars, histVars, genVars>>

-----------------------------------------------------------------------------
(* Editing and repeat selection: Sequencer.tsx and App.tsx *)

\* the beat grid is rendered unless the playback view replaces it
GridShown == ~(isPlaying /\ copyMode = "idle")

\* handleCopyClick: entering copy mode pauses a running playback
handleCopyClick ==
    /\ gestures < MaxGestures
    /\ gestures' = gestures + 1
    /\ copyStart' = -1
    /\ copyEnd' = -1
    /\ IF copyMode = "idle"
       THEN /\ copyMode' = "start"
            /\ repeatSelMode' = "idle"
            /\ IF isPlaying /\ ~isPaused
               THEN PausePlayback
               ELSE UNCHANGED <<isPlaying, isPaused, hookVars, timers, timerClosure,
                                activeSlot, pauseInfo, runLog, runInfo, pending>>
       ELSE /\ copyMode' = "idle"
            /\ UNCHANGED <<repeatSelMode, isPlaying, isPaused, hookVars, timers,
                           timerClosure, activeSlot, pauseInfo, runLog, runInfo, pending>>
    /\ UNCHANGED <<sequence, isRepeatMode, repeatRange, bpm, repeatSelStart, genVars>>

\* the loop of handlePaste over a copy of the sequence
RECURSIVE PasteLoop(_, _, _, _, _, _)
PasteLoop(newSeq, seq, start, target, i, length) ==
    IF i >= length THEN newSeq
    ELSE PasteLoop(IF target + i < newSeq.length
                   THEN SetAt(newSeq, target + i,
                              IF Truthy(At(seq, start + i)) THEN At(seq, start + i) ELSE NULL)
                   ELSE newSeq,
                   seq, start, target, i + 1, length)

\* handlePaste of App.tsx: the sequence it sets
handlePaste(start, end, target) ==
    PasteLoop(sequence, sequence, start, target, 0, end - start + 1)

\* handleRepeatToggle, with handleToggleRepeat of App.tsx
handleRepeatToggle ==
    /\ gestures < MaxGestures
    /\ gestures' = gestures + 1
    /\ IF ~isRepeatMode
       THEN /\ isRepeatMode' = TRUE
            /\ IF repeatRange.type = "null"
               THEN repeatSelMode' = "start" /\ repeatSelStart' = -1
               ELSE UNCHANGED <<repeatSelMode, repeatSelStart>>
            /\ UNCHANGED <<repeatRange, isPlaying, isPaused, hookVars, timers,
                           timerClosure, pending, runLog, runInfo, pauseInfo>>
       ELSE /\ isRepeatMode' = FALSE
            /\ repeatRange' = NoRange
            /\ repeatSelMode' = "idle"
            /\ repeatSelStart' = -1
            /\ StopPlayback(FALSE, NoRange)
    /\ UNCHANGED <<sequence, activeSlot, bpm, copyMode, copyStart, copyEnd, genVars>>

\* handleSlotInteraction: a click on a slot of the grid continues a copy
\* selection, or else a repeat selection, or else makes the slot the active one
handleSlotInteraction(index) ==
    /\ GridShown
    /\ IF copyMode = "start"
       THEN /\ copyStart' = index
            /\ copyMode' = "end"
            /\ UNCHANGED <<appVars, copyEnd, repeatSelMode, repeatSelStart, hookVars,
                           envVars, histVars>>
       ELSE IF copyMode = "end"
       THEN /\ copyStart' = Min(copyStart, index)
            /\ copyEnd' = Max(copyStart, index)
            /\ copyMode' = "target"
            /\ UNCHANGED <<appVars, repeatSelMode, repeatSelStart, hookVars, envVars,
                           histVars>>
       ELSE IF copyMode = "target"
       THEN /\ IF copyStart # -1 /\ copyEnd # -1
               THEN /\ sequence' = handlePaste(copyStart, copyEnd, index)
                    /\ copyMode' = "idle"
                    /\ copyStart' = -1
                    /\ copyEnd' = -1
               ELSE UNCHANGED <<sequence, copyMode, copyStart, copyEnd>>
            /\ UNCHANGED <<activeSlot, isPlaying, isPaused, isRepeatMode, repeatRange, bpm,
                           repeatSelMode, repeatSelStart, hookVars, envVars, histVars>>
       ELSE IF repeatSelMode = "start"
       THEN /\ repeatSelStart' = index
            /\ repeatSelMode' = "end"
            /\ UNCHANGED <<appVars, copyMode, copyStart, copyEnd, hookVars, envVars,
                           histVars>>
       ELSE IF repeatSelMode = "end"
       THEN /\ LET start == Min(repeatSelStart, index)
                   end == Max(repeatSelStart, index)
               IN  /\ repeatRange' = Range(start, end)
                   /\ IF ~isPlaying
                      THEN StartPlayback(isRepeatMode, Range(start, end))
                      ELSE UNCHANGED <<isPlaying, isPaused, hookVars, timers, timerClosure,
                                       pending, runLog, runInfo, pauseInfo>>
            /\ repeatSelMode' = "idle"
            /\ repeatSelStart' = -1
            /\ UNCHANGED <<sequence, activeSlot, isRepeatMode, bpm, copyMode, copyStart,
                           copyEnd, gestures>>
       ELSE /\ gestures < MaxGestures
            /\ gestures' = gestures + 1
            /\ activeSlot' = index
            /\ UNCHANGED <<sequence, isPlaying, isPaused, isRepeatMode, repeatRange, bpm,
                           uiVars, hookVars, envVars, runLog, runInfo, pauseInfo>>
    /\ UNCHANGED genVars

\* handleChordClick on a chord diagram while a slot is active
handleChordClick ==
    /\ activeSlot # -1
    /\ gestures < MaxGestures
    /\ sequence' = SetAt(sequence, activeSlot, PlacedVoicing)
    /\ activeSlot' = IF ~isPaused
                     THEN IF activeSlot < LastSlot THEN activeSlot + 1 ELSE -1
                     ELSE activeSlot
    /\ gestures' = gestures + 1
    /\ UNCHANGED <<isPlaying, isPaused, isRepeatMode, repeatRange, bpm, uiVars,
                   hookVars, envVars, runLog, runInfo, pauseInfo, genVars>>

\* handleClearSlot: the clear button of an occupied slot of the grid
handleClearSlot(index) ==
    /\ GridShown
    /\ Truthy(At(sequence, index))
    /\ gestures < MaxGestures
    /\ sequence' = SetAt(sequence, index, NULL)
    /\ gestures' = gestures + 1
    /\ UNCHANGED <<activeSlot, isPlaying, isPaused, isRepeatMode, repeatRange, bpm,
                   uiVars, hookVars, envVars, runLog, runInfo, pauseInfo, genVars>>

\* onClearAll: setSequence(Array(160).fill(null))
onClearAll ==
    /\ gestures < MaxGestures
    /\ sequence' = EmptySequence
    /\ gestures' = gestures + 1
    /\ UNCHANGED <<activeSlot, isPlaying, isPaused, isRepeatMode, repeatRange, bpm,
                   uiVars, hookVars, envVars, runLog, runInfo, pauseInfo, genVars>>

\* handleLoad: a file that parses and validates stops playback and replaces
\* the sequence as it is; any other file only raises an alert
handleLoad(json) ==
    /\ gestures < MaxGestures
    /\ gestures' = gestures + 1
    /\ IF json.type # "unparsable" /\ validateSequence(json)
       THEN /\ StopPlayback(isRepeatMode, repeatRange)
            /\ sequence' = json
       ELSE UNCHANGED <<sequence, isPlaying, isPaused, hookVars, timers, timerClosure,
                        pending, runLog, runInfo, pauseInfo>>
    /\ UNCHANGED <<activeSlot, isRepeatMode, repeatRange, bpm, uiVars, genVars>>

-----------------------------------------------------------------------------

Next ==
    \/ Play
    \/ Stop
    \/ Pause
    \/ Resume
    \/ \E step \in StepInputs : stepTo(step)
    \/ \E parsed \in BpmInputs : handleBpmCommit(parsed)
    \/ handleCopyClick
    \/ handleRepeatToggle
    \/ \E index \in SlotInputs : handleSlotInteraction(index)
    \/ handleChordClick
    \/ \E index \in SlotInputs : handleClearSlot(index)
    \/ onClearAll
    \/ \E json \in LoadInputs : handleLoad(json)
    \/ SchedulerPass
    \/ HighlightCallback
    \/ Tick

Spec == Init /\ [][Next]_vars

-----------------------------------------------------------------------------
(* The voicing generator on its own: one call for each input *)

InitGen ==
    /\ SchedulerInit
    /\ genIn \in GenInputs
    /\ genOut = NotReturned

\* the call of generateVoicings and its return
Generate ==
    /\ genIn.type = "call"
    /\ genOut = NotReturned
    /\ genOut' = [type |-> "returned",
                  voicings |-> generateVoicings(genIn.notes, genIn.voicingType,
                                                genIn.stringSetOverride)]
    /\ UNCHANGED <<appVars, uiVars, hookVars, envVars, histVars, genIn>>

NextGen == Generate

SpecGen == InitGen /\ [][NextGen]_vars

-----------------------------------------------------------------------------
(* The operations that write the sequence, with the transport buttons and
   the clock standing still *)

\* a voicing of the progression generator as the value the page stores
toValue(voicing) ==
    [type |-> "object", name |-> Str(voicing.name),
     positions |-> Arr(Len(voicing.positions),
                       [k \in 0..(Len(voicing.positions) - 1) |->
                           Pos(Num(voicing.positions[k + 1].string),
                               Num(voicing.positions[k + 1].fret),
                               Str(voicing.positions[k + 1].note))]),
     intervalMap |-> [type |-> "object", map |-> voicing.intervalMap]]

\* what localStorage can hold when the page is opened: nothing, a text that
\* does not parse, saves of four and of 161 slots, and arrays of other shapes
LongFile == Arr(161, (160 :> PlacedVoicing))
NullEntryFile == Arr(1, (0 :> VoicingObj(Str("Cmaj7"), Arr(1, <<>>))))
StoredValues ==
    { NULL, Unparsable, ShortFile, LongFile, NullEntryFile,
      Arr(1, (0 :> VoicingObj(Num(123), Arr(0, <<>>)))),
      Arr(1, (0 :> VoicingObj(Str("Bad"), Str("not array")))) }
\* the files the load dialog is given
FileInputs == LoadInputs \cup {LongFile, NullEntryFile, Str("not an array")}
\* the progressions loaded from the library
LibraryInputs ==
    { [progType |-> "MajorII_V_I", key |-> "C", voicingType |-> "Drop2",
       stringSet |-> Strings(<<2, 3, 4, 5>>)],
      [progType |-> "RhythmChanges", key |-> "C", voicingType |-> "Drop3",
       stringSet |-> Strings(<<2, 3, 4, 5>>)] }

\* the page as useState builds it, before the effects of the first render
InitEdit ==
    /\ sequence = EmptySequence
    /\ activeSlot = -1
    /\ isPlaying = FALSE
    /\ isPaused = FALSE
    /\ isRepeatMode = FALSE
    /\ repeatRange = NoRange
    /\ bpm = InitialBpm
    /\ copyMode = "idle"
    /\ copyStart = -1
    /\ copyEnd = -1
    /\ repeatSelMode = "idle"
    /\ repeatSelStart = -1
    /\ currentBeat = -1
    /\ nextNoteTimeRef = 0
    /\ currentStepRef = 0
    /\ timerIDRef = 0
    /\ isPlayingRef = FALSE
    /\ timers = {}
    /\ timerClosure = [bpm |-> InitialBpm, isRepeatMode |-> FALSE, repeatRange |-> NoRange]
    /\ pending = <<>>
    /\ runLog = <<>>
    /\ runInfo = NoRun
    /\ pauseInfo = NoPause
    /\ gestures = 0
    /\ genIn \in {[type |-> "stored", saved |-> saved] : saved \in StoredValues}
    /\ genOut = NotReturned

\* App.tsx: the auto-load effect of the first render; a stored value that
\* is missing, does not parse or is not valid leaves the sequence as it is
AutoLoadEffect ==
    /\ genIn.type = "stored"
    /\ genOut = NotReturned
    /\ sequence' = IF /\ Truthy(genIn.saved)
                      /\ genIn.saved.type # "unparsable"
                      /\ validateSequence(genIn.saved)
                   THEN AutoLoad(genIn.saved)
                   ELSE sequence
    /\ genOut' = [type |-> "mounted"]
    /\ UNCHANGED <<activeSlot, isPlaying, isPaused, isRepeatMode, repeatRange, bpm,
                   uiVars, hookVars, envVars, histVars, genIn>>

\* Sequencer.tsx: the onLoad of the library modal; a sequence that is not
\* empty replaces the sequence of the page, playback goes on
LoadProgression(call) ==
    /\ gestures < MaxGestures
    /\ gestures' = gestures + 1
    /\ \E seq \in {generateProgressionSequence(call.progType, call.key, call.voicingType,
                                               call.stringSet)} :
          sequence' = IF seq.length > 0
                      THEN Arr(seq.length, [k \in DOMAIN seq.items |-> toValue(seq.items[k])])
                      ELSE sequence
    /\ UNCHANGED <<activeSlot, isPlaying, isPaused, isRepeatMode, repeatRange, bpm,
                   uiVars, hookVars, envVars, runLog, runInfo, pauseInfo, genVars>>

\* the effects of the first render run before any event of the user
Mounted == genOut.type = "mounted"

NextEdit ==
    \/ AutoLoadEffect
    \/ Mounted /\ Play
    \/ Mounted /\ Stop
    \/ Mounted /\ Pause
    \/ Mounted /\ Resume
    \/ Mounted /\ handleCopyClick
    \/ \E index \in SlotInputs : Mounted /\ handleSlotInteraction(index)
    \/ \E index \in SlotInputs : Mounted /\ handleClearSlot(index)
    \/ Mounted /\ onClearAll
    \/ \E json \in FileInputs : Mounted /\ handleLoad(json)
    \/ \E call \in LibraryInputs : Mounted /\ LoadProgression(call)

SpecEdit == InitEdit /\ [][NextEdit]_vars

-----------------------------------------------------------------------------
(* The rhythm patterns *)

\* a trigger, its offset and its duration in tenths of a beat
Trigger(offset, duration) == [offset |-> offset, duration |-> duration]

\* RHYTHM_PATTERNS: the trigger lists of the four beats of each pattern
RHYTHM_PATTERNS ==
    ("Four on the Floor" :>
        << <<Trigger(0, 8)>>, <<Trigger(0, 8)>>, <<Trigger(0, 8)>>, <<Trigger(0, 8)>> >>)
    @@ ("Charleston" :>
        << <<Trigger(0, 12)>>, <<Trigger(5, 4)>>, <<>>, <<>> >>)
    @@ ("Tresillo (3-3-2)" :>
        << <<Trigger(0, 12)>>, <<>>, <<Trigger(5, 12)>>, <<Trigger(0, 8)>> >>)
    @@ ("Jazz Swing (Red Garland)" :>
        << <<>>, <<Trigger(5, 3)>>, <<>>, <<Trigger(5, 3)>> >>)

\* a variant of getAdaptiveTriggers that fills in at every chord change
getAdaptiveTriggersChangeFirst(pattern, beatIndex, currentVoicing, prevVoicing) ==
    IF /\ Truthy(currentVoicing)
       /\ (~Truthy(prevVoicing) \/ currentVoicing.name # prevVoicing.name)
    THEN <<Trigger(0, 10)>>
    ELSE IF beatIndex + 1 \in DOMAIN pattern THEN pattern[beatIndex + 1] ELSE <<>>

\* getAdaptiveTriggers: the triggers of the pattern when the beat has any,
\* one strum on a rest beat where the chord changes, nothing otherwise;
\* pattern[beatIndex] is undefined outside the pattern
getAdaptiveTriggers(pattern, beatIndex, currentVoicing, prevVoicing) ==
    IF beatIndex + 1 \in DOMAIN pattern /\ Len(pattern[beatIndex + 1]) > 0
    THEN pattern[beatIndex + 1]
    ELSE IF /\ Truthy(currentVoicing)
            /\ (~Truthy(prevVoicing) \/ currentVoicing.name # prevVoicing.name)
         THEN <<Trigger(0, 10)>>
         ELSE <<>>

\* the calls: every pattern, the four beats and an index past the pattern,
\* no chord or one of two chords in the slot and in the slot before it
Named(name) == [type |-> "object", name |-> name]
BeatInputs == 0..4
ChordInputs == {NULL, Named("Cmaj7"), Named("Dm7")}
TriggerInputs ==
    { [type |-> "triggers", pattern |-> pattern, beatIndex |-> beatIndex,
       currentVoicing |-> current, prevVoicing |-> prev] :
        pattern \in DOMAIN RHYTHM_PATTERNS, beatIndex \in BeatInputs,
        current \in ChordInputs, prev \in ChordInputs }

InitRhythm ==
    /\ SchedulerInit
    /\ genIn \in TriggerInputs
    /\ genOut = NotReturned

\* the call of getAdaptiveTriggers and its return
AdaptiveTriggers ==
    /\ genIn.type = "triggers"
    /\ genOut = NotReturned
    /\ genOut' = [type |-> "returned",
                  triggers |-> getAdaptiveTriggers(RHYTHM_PATTERNS[genIn.pattern],
                                                   genIn.beatIndex, genIn.currentVoicing,
                                                   genIn.prevVoicing)]
    /\ UNCHANGED <<appVars, uiVars, hookVars, envVars, histVars, genIn>>

NextRhythm == AdaptiveTriggers

SpecRhythm == InitRhythm /\ [][NextRhythm]_vars

-----------------------------------------------------------------------------
(* The validator on its own: one call for each input *)

\* the elements of the parsed files: null, the voicing of the validator's
\* test, its two bad elements (positions that are a string, a name that is
\* a number), and elements of other JSON shapes
ValidVoicing == VoicingObj(Str("Cmaj7"), Arr(1, (0 :> Pos(Num(1), Num(3), Str("C")))))
ElementInputs ==
    { NULL, ValidVoicing,
      VoicingObj(Str("Bad"), Str("not array")),
      VoicingObj(Num(123), Arr(0, <<>>)),
      VoicingObj(Str("Cmaj7"), Arr(1, <<>>)),
      VoicingObj(Str("Cmaj7"), Arr(1, (0 :> Pos(Str("1"), Num(3), Str("C"))))),
      VoicingObj(Str("Cmaj7"), Arr(1, (0 :> Pos(Num(1), Str("3"), Str("C"))))),
      VoicingObj(Str("Cmaj7"), Arr(1, (0 :> Pos(Num(1), Num(3), Num(0))))),
      VoicingObj(Str("Cmaj7"), Arr(1, (0 :> Num(5)))),
      VoicingObj(Str("Cmaj7"),
                 Arr(1, (0 :> [type |-> "object", string |-> Num(1), note |-> Str("C")]))),
      [type |-> "object", positions |-> Arr(0, <<>>)],
      [type |-> "object"], Arr(0, <<>>), Num(7), Str("Cmaj7") }

\* the array of a list of elements
ArrayOf(elements) ==
    Arr(Len(elements),
        [k \in {i - 1 : i \in {j \in DOMAIN elements : elements[j] # NULL}} |-> elements[k + 1]])

MaxElements == 2

\* what JSON.parse hands to the validator: values that are no arrays, and the
\* arrays of up to MaxElements elements
ValidateInputs ==
    { [type |-> "validate", data |-> data] :
        data \in {Str("not an array"), Num(1), NULL, [type |-> "object"], ValidVoicing}
                 \cup {ArrayOf(elements) :
                         elements \in UNION {[1..n -> ElementInputs] : n \in 0..MaxElements}} }

InitValidate ==
    /\ SchedulerInit
    /\ genIn \in ValidateInputs
    /\ genOut = NotReturned

\* the call of validateSequence and its end
Validate ==
    /\ genIn.type = "validate"
    /\ genOut = NotReturned
    /\ genOut' = [type |-> "ended", outcome |-> validateOutcome(genIn.data)]
    /\ UNCHANGED <<appVars, uiVars, hookVars, envVars, histVars, genIn>>

NextValidate == Validate

SpecValidate == InitValidate /\ [][NextValidate]_vars

-----------------------------------------------------------------------------
(* The progression generator on its own: one call for each input *)

InitProg ==
    /\ SchedulerInit
    /\ genIn \in ProgressionInputs
    /\ genOut = NotReturned

\* the call of generateProgressionSequence and its return
GenerateProgression ==
    /\ genIn.type = "progression"
    /\ genOut = NotReturned
    /\ genOut' = [type |-> "returned",
                  sequence |-> generateProgressionSequence(genIn.progType, genIn.key,
                                                           genIn.voicingType, genIn.stringSet)]
    /\ UNCHANGED <<appVars, uiVars, hookVars, envVars, histVars, genIn>>

NextProg == GenerateProgression

SpecProg == InitProg /\ [][NextProg]_vars

-----------------------------------------------------------------------------
(* Properties of the transport and the scheduler *)

\* the active span of the claims: the repeat range when repeat mode has one,
\* otherwise [0, L) with L the end of the last populated measure
SpanStart == IF isRepeatMode /\ repeatRange.type # "null" THEN repeatRange.start ELSE 0
SpanLast ==
    IF isRepeatMode /\ repeatRange.type # "null" THEN repeatRange.end
    ELSE IF LastPopulatedIndex(sequence) = -1 THEN 32 - 1
         ELSE 4 * ((LastPopulatedIndex(sequence) \div 4) + 1) - 1
\* a scheduling pass that dispatches one step: it alone adds a callback
Dispatches == Len(pending') = Len(pending) + 1
LastLogged == runLog[Len(runLog)]

\* C1: a start from the stopped state dispatches the count-in steps -4, -3,
\* -2, -1 in that order, each as a click and no chord, accented only on -4,
\* and the step dispatched next is 0, or the start of the repeat range when
\* repeat mode has a range.
C1_CountIn ==
    runInfo.kind = "fresh" =>
        \A k \in 1..Len(runLog) :
            /\ k <= 4 => runLog[k] = [step |-> k - 5, kind |-> "click", accent |-> (k = 1)]
            /\ k = 5 => runLog[k].step = SpanStart

C1_Witness ==
    /\ runInfo.kind = "fresh"
    /\ Len(runLog) >= 5
    /\ isRepeatMode /\ repeatRange.type # "null"

\* C2: after a pause and a resume with no repeat range and no manual seek in
\* between, the first step dispatched is the step the cursor held when the
\* pause was made, for every pause point, the count-in included.
C2_ResumeFromCursor ==
    ( /\ runInfo.kind = "resume"
      /\ ~runInfo.seek
      /\ ~(isRepeatMode /\ repeatRange.type # "null")
      /\ runLog # <<>> )
    => runLog[1].step = runInfo.cursorAtPause

\* C3: a highlight callback scheduled before a stop never changes the
\* highlighted slot when it fires after that stop, whether playback is still
\* stopped or has been started again.
C3_StaleCallbackInert ==
    [][ (pending # <<>> /\ Head(pending).stale /\ pending' = Tail(pending))
        => currentBeat' = currentBeat ]_vars

\* C4: whenever playback is stopped, from the count-in, from playing or from a
\* pause, the periodic timer is cancelled, the cursor is reset to 0 and the
\* highlighted slot to -1.
C4_StopResets ==
    [][ (isPlaying /\ ~isPlaying')
        => (timers' = {} /\ timerIDRef' = 0 /\ currentStepRef' = 0 /\ currentBeat' = -1) ]_vars

C4_Witness ==
    /\ ~isPlaying
    /\ pending # <<>> /\ Head(pending).stale
    /\ timers = {} /\ currentStepRef = 0 /\ currentBeat = -1

\* C5: advancing the cursor from a step c >= 0 yields c + 1, unless c + 1 lies
\* past the end of the active span, and then it yields the start of the span.
C5_Advance ==
    [][ (Dispatches /\ currentStepRef >= 0)
        => currentStepRef' = IF currentStepRef + 1 > SpanLast THEN SpanStart
                             ELSE currentStepRef + 1 ]_vars

\* content in the first measure only and no range: step 3 was dispatched and
\* the cursor is back at 0
C5_Witness ==
    /\ runLog # <<>> /\ LastLogged.step = 3
    /\ LastPopulatedIndex(sequence) \in 0..3
    /\ ~isRepeatMode
    /\ timers # {} /\ currentStepRef = 0

\* C6: on a resume with repeat mode on and a range configured, the first step
\* dispatched is the start of the range if the frozen position is below the
\* start or above the end, and the frozen position itself if it is inside.
C6_ResumeInRange ==
    ( /\ runInfo.kind = "resume"
      /\ isRepeatMode /\ repeatRange.type # "null"
      /\ runLog # <<>> )
    => runLog[1].step = IF runInfo.frozen < repeatRange.start \/ runInfo.frozen > repeatRange.end
                        THEN repeatRange.start
                        ELSE runInfo.frozen

\* C7: a manual seek leaves the cursor inside the sequence: between 0 and the
\* last valid index.
C7_SeekInsideSequence ==
    (isPlaying /\ isPaused /\ pauseInfo.seek)
    => (0 <= currentStepRef /\ currentStepRef <= sequence.length - 1)

\* C8: when the step dispatched holds no voicing (a null slot, or an index
\* with no entry in the sequence), no chord trigger is issued, the interval
\* stays live, and the cursor and the next-event time advance as they do for
\* a filled slot: to the next step of the span, one beat later.
C8_RestAdvances ==
    [][ ( /\ Len(runLog') = Len(runLog) + 1
          /\ currentStepRef >= 0
          /\ At(sequence, currentStepRef).type \in {"null", "undefined"} )
        => ( /\ runLog'[Len(runLog')] = [step |-> currentStepRef, kind |-> "rest", accent |-> FALSE]
             /\ timers' = timers
             /\ currentStepRef' = IF currentStepRef + 1 > SpanLast THEN SpanStart
                                  ELSE currentStepRef + 1
             /\ nextNoteTimeRef' = nextNoteTimeRef + (600 \div timerClosure.bpm) ) ]_vars

\* an index past the end of a loaded four-slot sequence was dispatched as a rest
C8_Witness ==
    /\ runLog # <<>> /\ LastLogged.kind = "rest"
    /\ At(sequence, LastLogged.step) = UNDEFINED
    /\ timers # {}

-----------------------------------------------------------------------------
(* Properties of the voicing generator *)

Returned == IF genOut.type = "returned" THEN genOut.voicings ELSE <<>>
\* standard tuning E-A-D-G-B-E as pitch classes, C = 0
StandardTuning == <<4, 9, 2, 7, 11, 4>>
PitchAt(string, fret) == (StandardTuning[string + 1] + fret) % 12
\* the pitch class of a note name
PitchClass(note) ==
    CASE note \in {"C", "B#"} -> 0
      [] note \in {"C#", "Db"} -> 1
      [] note = "D" -> 2
      [] note \in {"D#", "Eb"} -> 3
      [] note \in {"E", "Fb"} -> 4
      [] note \in {"F", "E#"} -> 5
      [] note \in {"F#", "Gb"} -> 6
      [] note = "G" -> 7
      [] note \in {"G#", "Ab"} -> 8
      [] note = "A" -> 9
      [] note \in {"A#", "Bb"} -> 10
      [] note \in {"B", "Cb"} -> 11
Frets(v) == {v.positions[k].fret : k \in DOMAIN v.positions}
\* the strings the call plays on are distinct: the default sets, or an
\* override that names no string twice
DistinctStrings ==
    genIn.stringSetOverride.type = "array" /\ genIn.voicingType \in {"Drop2", "Drop3", "Drop2_4"}
    => \A i, j \in DOMAIN genIn.stringSetOverride.strings :
           i # j => genIn.stringSetOverride.strings[i] # genIn.stringSetOverride.strings[j]

\* C9: every voicing returned is playable: its fret span is at most 4 for
\* Drop2, Drop3, Shell and FreddieGreen and at most 5 for Drop2_4, no position
\* is on fret 0, and no two positions are on the same string, for the default
\* string sets and for every override of distinct strings.
C9_Playable ==
    \A i \in DOMAIN Returned :
        LET v == Returned[i] IN
        /\ \A a, b \in Frets(v) : a - b <= (IF genIn.voicingType = "Drop2_4" THEN 5 ELSE 4)
        /\ 0 \notin Frets(v)
        /\ DistinctStrings =>
               \A j, k \in DOMAIN v.positions :
                   j # k => v.positions[j].string # v.positions[k].string

\* a Drop2_4 voicing on overridden strings that needs the span of 5
C9_Witness ==
    /\ genIn.type = "call" /\ genIn.voicingType = "Drop2_4"
    /\ genIn.stringSetOverride.type = "array" /\ DistinctStrings
    /\ \E i \in DOMAIN Returned : \E a, b \in Frets(Returned[i]) : a - b = 5

\* C10: for every voicing returned, the pitch classes of its positions are, as
\* a multiset, the pitch classes of the input notes, and the pitch class that
\* each (string, fret) sounds under standard tuning is the pitch class of the
\* note assigned to the position.
C10_PitchClasses ==
    \A i \in DOMAIN Returned :
        LET v == Returned[i] IN
        /\ \A c \in 0..11 :
               Cardinality({k \in DOMAIN v.positions :
                               PitchAt(v.positions[k].string, v.positions[k].fret) = c})
               = Cardinality({k \in DOMAIN genIn.notes : PitchClass(genIn.notes[k]) = c})
        /\ \A k \in DOMAIN v.positions :
               PitchAt(v.positions[k].string, v.positions[k].fret) = PitchClass(v.positions[k].note)

\* a chord spelled with flats, returned with its Bb on the B string
C10_Witness ==
    /\ genIn.type = "call" /\ "Bb" \in {genIn.notes[k] : k \in DOMAIN genIn.notes}
    /\ \E i \in DOMAIN Returned :
           \E k \in DOMAIN Returned[i].positions :
               /\ Returned[i].positions[k].string = 4
               /\ Returned[i].positions[k].note = "Bb"

\* the input is a chord stacked root, 3rd, 5th, 7th: four notes whose
\* intervals above the first one rise
StackedChord ==
    /\ genIn.type = "call"
    /\ Len(genIn.notes) = 4
    /\ \A k \in 1..3 :
           (PitchClass(genIn.notes[k]) - PitchClass(genIn.notes[1]) + 12) % 12
           < (PitchClass(genIn.notes[k + 1]) - PitchClass(genIn.notes[1]) + 12) % 12
\* the notes on the lowest string a voicing uses
BassNotes(v) ==
    {v.positions[k].note : k \in {j \in DOMAIN v.positions :
        \A i \in DOMAIN v.positions : v.positions[j].string <= v.positions[i].string}}
InversionLabels == <<"Root Position", "1st Inversion", "2nd Inversion", "3rd Inversion">>

\* C11: for a four-note input root, 3rd, 5th, 7th and a Drop type, the bass
\* note of every returned voicing matches its inversion label: the position on
\* the lowest string holds the input root for "Root Position", the 3rd for
\* "1st Inversion", the 5th for "2nd Inversion", the 7th for "3rd Inversion".
C11_BassMatchesLabel ==
    (StackedChord /\ genIn.voicingType \in {"Drop2", "Drop3", "Drop2_4"} /\ DistinctStrings)
    => \A i \in DOMAIN Returned : \A n \in 1..4 :
           Returned[i].name = InversionLabels[n] => BassNotes(Returned[i]) = {genIn.notes[n]}

\* the number of notes is the one the voicing type asks for
CountMatches ==
    Len(genIn.notes) = (IF genIn.voicingType \in {"Drop2", "Drop3", "Drop2_4"} THEN 4 ELSE 3)
\* the pitch class of a note name the tables know, -1 for any other name
KnownPitch(note) ==
    IF \E i \in 1..12 : NOTES_SHARP[i] = note \/ NOTES_FLAT[i] = note
    THEN PitchClass(note) ELSE -1
\* some frets from 1 to lastFret, no more than limit apart, sound the notes
\* on the strings, note k on string k
Fits(notes, strings, lastFret, limit) ==
    \E low \in 1..lastFret :
        \A k \in DOMAIN strings :
            \E f \in low..Min(low + limit, lastFret) :
                PitchAt(strings[k], f) = KnownPitch(notes[k])
\* the string sets a call may place its notes on
StringSetsTried ==
    IF genIn.voicingType \in {"Drop2", "Drop3", "Drop2_4"}
    THEN { IF genIn.stringSetOverride.type = "array" THEN genIn.stringSetOverride.strings
           ELSE IF genIn.voicingType = "Drop2" THEN <<2, 3, 4, 5>>
           ELSE IF genIn.voicingType = "Drop3" THEN <<0, 2, 3, 4>>
           ELSE <<0, 1, 2, 3>> }
    ELSE { <<0, 2, 3>>, <<1, 2, 3>>, <<1, 3, 4>> }
\* no arrangement of the input notes on a string set of the call has a fret
\* combination within the span limit
NoCombination ==
    \A strings \in StringSetsTried :
        \A p \in [DOMAIN strings -> DOMAIN strings] :
            (\A a, b \in DOMAIN strings : a # b => p[a] # p[b])
            => ~Fits([k \in DOMAIN strings |-> genIn.notes[p[k]]], strings,
                     IF Len(strings) = 4 THEN 18 ELSE 16,
                     IF genIn.voicingType = "Drop2_4" THEN 5 ELSE 4)

-----------------------------------------------------------------------------
(* The progression generator: claims *)

ProgressionCall(progType, key, voicingType, stringSet) ==
    [type |-> "progression", progType |-> progType, key |-> key,
     voicingType |-> voicingType, stringSet |-> Strings(stringSet)]

\* the sequence a finished call returned
ReturnedSequence == genOut.sequence
Filled == DOMAIN ReturnedSequence.items

\* the chords of Rhythm Changes in C, in template order
RhythmChangesInC ==
    <<"Cmaj7", "Am7", "Dm7", "G7", "Cmaj7", "Am7", "Dm7", "G7",
      "Cmaj7", "C7", "Fmaj7", "Gbdim7", "Cmaj7", "G7", "Cmaj7", "G7">>

\* the note an interval map gives the label "1"
RootOf(voicing) == {n \in DOMAIN voicing.intervalMap : voicing.intervalMap[n] = "1"}

\* C13: generateProgressionSequence('RhythmChanges', 'C', 'Drop2', [2,3,4,5])
\* fills the slots 0 to 31 and no other; chord i of the template holds the
\* two slots 2i and 2i+1 with one voicing that carries its name, so that the
\* slots 0, 2, 4 and 6 carry Cmaj7, Am7, Dm7 and G7, rooted on C, A, D and G
C13_RhythmChanges ==
    (genIn = ProgressionCall("RhythmChanges", "C", "Drop2", <<2, 3, 4, 5>>)
     /\ genOut.type = "returned")
    => /\ Filled = 0..31
       /\ Cardinality(Filled) = 32
       /\ \A i \in 0..15 :
            /\ ReturnedSequence.items[2 * i].name = RhythmChangesInC[i + 1]
            /\ ReturnedSequence.items[2 * i + 1] = ReturnedSequence.items[2 * i]
       /\ <<ReturnedSequence.items[0].name, ReturnedSequence.items[2].name,
            ReturnedSequence.items[4].name, ReturnedSequence.items[6].name>>
          = <<"Cmaj7", "Am7", "Dm7", "G7">>
       /\ <<RootOf(ReturnedSequence.items[0]), RootOf(ReturnedSequence.items[2]),
            RootOf(ReturnedSequence.items[4]), RootOf(ReturnedSequence.items[6])>>
          = <<{"C"}, {"A"}, {"D"}, {"G"}>>

C13_Witness ==
    /\ genIn = ProgressionCall("RhythmChanges", "C", "Drop2", <<2, 3, 4, 5>>)
    /\ genOut.type = "returned"
    /\ 31 \in DOMAIN genOut.sequence.items

\* the chords of the template of the call, and of chord i its beat span
\* (measures x 4), its first slot (the sum of the spans before it) and its
\* symbol (the root the degree above the key, from the flat table, and the suffix)
Template == PROGRESSIONS[genIn.progType]
BeatSpan(i) == Template.halfMeasures[i] * 2
RECURSIVE FirstSlot(_)
FirstSlot(i) == IF i = 1 THEN 0 ELSE FirstSlot(i - 1) + BeatSpan(i - 1)
ChordSlots(i) == FirstSlot(i)..(FirstSlot(i) + BeatSpan(i) - 1)
ChordSymbol(i) ==
    NOTES_FLAT[((PitchClass(genIn.key) + Template.degrees[i]) % 12) + 1] \o Template.suffixes[i]

\* the pitch classes a voicing sounds on the fretboard
Sounded(voicing) ==
    {PitchAt(voicing.positions[k].string, voicing.positions[k].fret) :
        k \in DOMAIN voicing.positions}

\* the pitch classes above the root of chord i that its suffix stands for,
\* the altered dominant taken as root, third, seventh and flat ninth
Tones(i) ==
    LET parsed == parseChord(ChordSymbol(i))
        intervals == IF parsed.quality = "Altered Dominant"
                     THEN <<"1P", "3M", "7m", "9m">> ELSE parsed.intervals
    IN  {(PitchClass(genIn.key) + Template.degrees[i] + Semitones(intervals[k])) % 12 :
            k \in DOMAIN intervals}

\* C14: generateProgressionSequence returns an array of 160 slots; chord i of
\* the expanded template has the slots from the sum of the beat spans before
\* it, for its own beat span; its slots are all null or all hold one voicing
\* of tones of the chord under the name of the expanded chord symbol, and
\* every slot beyond the span of the last chord is null
C14_Layout ==
    (genIn.type = "progression" /\ genOut.type = "returned")
    => /\ ReturnedSequence.type = "array"
       /\ ReturnedSequence.length = 160
       /\ \A i \in DOMAIN Template.degrees :
            \/ ChordSlots(i) \cap Filled = {}
            \/ /\ ChordSlots(i) \subseteq Filled
               /\ \A slot \in ChordSlots(i) :
                     ReturnedSequence.items[slot] = ReturnedSequence.items[FirstSlot(i)]
               /\ ReturnedSequence.items[FirstSlot(i)].name = ChordSymbol(i)
               /\ Sounded(ReturnedSequence.items[FirstSlot(i)]) \subseteq Tones(i)
       /\ \A slot \in Filled :
            slot < FirstSlot(Len(Template.degrees)) + BeatSpan(Len(Template.degrees))

\* a twelve bar blues came back with its last chord in the slots 44 to 47
C14_Witness ==
    /\ genIn.type = "progression"
    /\ genIn.progType = "MajorBlues"
    /\ genOut.type = "returned"
    /\ 47 \in DOMAIN genOut.sequence.items
    /\ genOut.sequence.items[47].name = ChordSymbol(12)
\* C15: generateProgressionSequence('MajorII_V_I', 'C', 'Drop3', [1,3,4,5])
\* returns a sequence that is not empty and whose slot 0 holds a voicing: the
\* first chord, Dm7, has a Drop3 voicing on the strings 1, 3, 4 and 5
C15_Drop3FirstChord ==
    (genIn = ProgressionCall("MajorII_V_I", "C", "Drop3", <<1, 3, 4, 5>>)
     /\ genOut.type = "returned")
    => /\ ReturnedSequence.length > 0
       /\ 0 \in Filled
       /\ ReturnedSequence.items[0].name = "Dm7"
       /\ {ReturnedSequence.items[0].positions[k].string :
              k \in DOMAIN ReturnedSequence.items[0].positions} = {1, 3, 4, 5}
       /\ Sounded(ReturnedSequence.items[0]) = {2, 5, 9, 0}

C15_Witness ==
    /\ genIn = ProgressionCall("MajorII_V_I", "C", "Drop3", <<1, 3, 4, 5>>)
    /\ genOut.type = "returned"
    /\ 0 \in DOMAIN genOut.sequence.items
    /\ Len(genOut.sequence.items[0].positions) = 4


-----------------------------------------------------------------------------
(* The validator: claims *)

\* a position entry with a numeric string, a numeric fret and a string note
WellShapedEntry(pos) ==
    /\ pos.type = "object"
    /\ {"string", "fret", "note"} \subseteq DOMAIN pos
    /\ pos.string.type = "number"
    /\ pos.fret.type = "number"
    /\ pos.note.type = "string"

\* null, or an object with a string name and an array of such entries
WellShapedElement(item) ==
    \/ item = NULL
    \/ /\ item.type = "object"
       /\ {"name", "positions"} \subseteq DOMAIN item
       /\ item.name.type = "string"
       /\ item.positions.type = "array"
       /\ \A q \in 0..(item.positions.length - 1) : WellShapedEntry(At(item.positions, q))

WellShaped(data) ==
    /\ data.type = "array"
    /\ \A k \in 0..(data.length - 1) : WellShapedElement(At(data, k))

\* an object among the elements whose positions are no array, or whose name
\* is no string
BadPositions(data) ==
    \E k \in DOMAIN data.items :
        /\ data.items[k].type = "object"
        /\ Get(data.items[k], "positions").type # "array"
BadName(data) ==
    \E k \in DOMAIN data.items :
        /\ data.items[k].type = "object"
        /\ Get(data.items[k], "name").type # "string"

\* C16: validateSequence returns true exactly for the arrays whose elements
\* are all null or well shaped voicings, and it returns false for a root that
\* is no array, for an array with an element whose positions are no array and
\* for an array with an element whose name is no string
C16_Validator ==
    (genIn.type = "validate" /\ genOut.type = "ended")
    => /\ genOut.outcome = "true" <=> WellShaped(genIn.data)
       /\ genIn.data.type # "array" => genOut.outcome = "false"
       /\ (genIn.data.type = "array" /\ (BadPositions(genIn.data) \/ BadName(genIn.data)))
          => genOut.outcome = "false"
-----------------------------------------------------------------------------
(* Loading: claims *)

\* the sequence and the playback state of the page
LoadedState == <<sequence, isPlaying, isPaused, hookVars, envVars>>

\* C17: a load of a file or of a stored value that does not parse or is not
\* a well shaped sequence leaves the sequence and the playback state as they
\* are; a load replaces the sequence only by a well shaped value (the file as
\* it is, the stored value cut or padded to 160 slots), and the sequence of
\* the page is well shaped at all times
C17_RejectedLoadInert ==
    /\ [][/\ \A json \in FileInputs :
                (~WellShaped(json) /\ Mounted /\ handleLoad(json)) => UNCHANGED LoadedState
          /\ (~WellShaped(genIn.saved) /\ AutoLoadEffect) => UNCHANGED LoadedState
          /\ ((\E json \in FileInputs : Mounted /\ handleLoad(json)) /\ sequence' # sequence)
             => \E json \in FileInputs : WellShaped(json) /\ sequence' = json
          /\ (AutoLoadEffect /\ sequence' # sequence)
             => /\ WellShaped(genIn.saved)
                /\ \A k \in 0..(SeqSlots - 1) : At(sequence', k) = At(genIn.saved, k)
                                                \/ (At(sequence', k) = NULL
                                                    /\ At(genIn.saved, k) = UNDEFINED)
         ]_vars
    /\ [](WellShaped(sequence))

\* playback runs on the stored sequence after the one event so far, which
\* changed nothing on the page: a file that was turned away
C17_Witness ==
    /\ Mounted
    /\ genIn.saved = ShortFile
    /\ sequence = AutoLoad(ShortFile)
    /\ isPlaying
    /\ gestures = 1
    /\ activeSlot = -1
    /\ copyMode = "idle"
    /\ repeatSelMode = "idle"

\* C18: the sequence of the page never has more than 160 slots
C18_AtMost160 == sequence.length <= 160


-----------------------------------------------------------------------------
(* The rhythm patterns: claims *)

\* the trigger list the pattern of the call has for its beat, empty when
\* the pattern has none
OwnTriggers ==
    IF genIn.beatIndex \in 0..3 THEN RHYTHM_PATTERNS[genIn.pattern][genIn.beatIndex + 1]
    ELSE <<>>

ChordChanged ==
    /\ genIn.currentVoicing # NULL
    /\ (genIn.prevVoicing = NULL \/ genIn.prevVoicing.name # genIn.currentVoicing.name)

\* C19: getAdaptiveTriggers returns the trigger list of the pattern for the
\* beat whenever that list is not empty, whatever the chords are; on a rest
\* beat it returns the one fill trigger with offset 0 and duration 1.0 if
\* current is not null and prev is null or has another name, and an empty
\* list otherwise
C19_AdaptiveTriggers ==
    (genIn.type = "triggers" /\ genOut.type = "returned")
    => /\ OwnTriggers # <<>> => genOut.triggers = OwnTriggers
       /\ (OwnTriggers = <<>> /\ ChordChanged) => genOut.triggers = <<Trigger(0, 10)>>
       /\ (OwnTriggers = <<>> /\ ~ChordChanged) => genOut.triggers = <<>>

\* a rest beat of the Charleston on which the chord changes got the fill
C19_Witness ==
    /\ genIn.type = "triggers"
    /\ genIn.pattern = "Charleston"
    /\ genIn.beatIndex = 2
    /\ genIn.currentVoicing = Named("Dm7")
    /\ genIn.prevVoicing = Named("Cmaj7")
    /\ genOut.type = "returned"
    /\ genOut.triggers = <<Trigger(0, 10)>>
-----------------------------------------------------------------------------
(* One run of the interval on its own: the passes of scheduler() from the  *)
(* start of the interval on, with the audio clock as a number of ticks and *)
(* the firings of the interval any number of ticks apart, as a throttled   *)
(* timer makes them                                                        *)

\* the audio clock runs up to MaxClock ticks
MaxClock == 12
\* two firings of the interval lie at most MaxDelay ticks apart
MaxDelay == 8

\* the props the interval callback closed over, the sequences and the
\* cursors the play effect leaves: -4 on a fresh start, the highlighted
\* beat on a resume
ClosureInputs ==
    { [bpm |-> tempo, isRepeatMode |-> range.type # "null", repeatRange |-> range] :
        tempo \in {MinBpm, InitialBpm, MaxBpm}, range \in {NoRange, Range(1, 4)} }
RunInputs ==
    { [type |-> "run", clock |-> 0, time |-> StartOffset, step |-> step,
       closure |-> closure, sequence |-> seq] :
        step \in {-4, 2, 5}, closure \in ClosureInputs,
        seq \in {EmptySequence, AutoLoad(ShortFile)} }

InitRun ==
    /\ SchedulerInit
    /\ genIn \in RunInputs
    /\ genOut = [type |-> "calls", calls |-> <<>>]

\* one firing of the interval: scheduler() on the refs; the calls of
\* scheduleNote are kept with their time on the audio clock and the clock
\* of the pass that made them
IntervalFires ==
    /\ genIn.type = "run"
    /\ LET s == scheduler([time |-> genIn.time, step |-> genIn.step, pend |-> <<>>,
                           log |-> <<>>, calls |-> <<>>],
                          genIn.closure, genIn.sequence)
       IN  /\ genIn' = [genIn EXCEPT !.time = s.time, !.step = s.step]
           /\ genOut' = [genOut EXCEPT !.calls = genOut.calls \o
                            [k \in DOMAIN s.calls |->
                                [beatNumber |-> s.calls[k].beatNumber,
                                 time |-> genIn.clock + s.calls[k].time,
                                 at |-> genIn.clock]]]
    /\ UNCHANGED <<appVars, uiVars, hookVars, envVars, histVars>>

\* the audio clock advances to the next firing of the interval
ClockAdvances ==
    /\ genIn.type = "run"
    /\ genIn.clock < MaxClock
    /\ \E delay \in 1..MaxDelay :
         genIn' = [genIn EXCEPT !.clock = genIn.clock + delay, !.time = genIn.time - delay]
    /\ UNCHANGED <<appVars, uiVars, hookVars, envVars, histVars, genOut>>

NextRun == IntervalFires \/ ClockAdvances

SpecRun == InitRun /\ [][NextRun]_vars

-----------------------------------------------------------------------------
(* Chord spelling on its own: one symbol parsed and spelled *)

\* the symbols: every root the pattern of parseChord matches, with every
\* suffix of the table and two suffixes outside it, and symbols the pattern
\* does not match
SymbolInputs ==
    { [type |-> "chord", symbol |-> letter \o accidental \o rest] :
        letter \in {"A", "B", "C", "D", "E", "F", "G"},
        accidental \in {"", "#", "b"},
        rest \in UNION {ChordTable[i].rest : i \in 1..Len(ChordTable)} \cup {"add9", "m7 "} }
    \cup { [type |-> "chord", symbol |-> symbol] : symbol \in {"", "H7", "cmaj7", "#m7", "7", " C"} }

\* the calls of getIntervalMap: a root of each spelling and one outside the
\* note tables, with the interval lists of the table and lists in which two
\* intervals fall on one pitch class, one has no semitones of its own and
\* one is the empty string
IntervalInputs ==
    { [type |-> "intervals", root |-> root, intervals |-> intervals] :
        root \in {"C", "C#", "Db", "F", "G", "Cb"},
        intervals \in {ChordTable[i].intervals : i \in 1..Len(ChordTable)}
                      \cup { <<"1P", "5d", "4A">>, <<"1P", "4A", "5d">>, <<"1P", "3m", "9A">>,
                              <<"1P", "4A", "11A">>, <<"1P", "3M", "5P", "13M">>,
                              <<"1P", "">> } }

InitChord ==
    /\ SchedulerInit
    /\ genIn \in SymbolInputs \cup IntervalInputs
    /\ genOut = NotReturned

\* parseChord, then the notes and the interval map of what it returned
SpellChord ==
    /\ genIn.type = "chord"
    /\ genOut = NotReturned
    /\ \E parsed \in {parseChord(genIn.symbol)} :
         genOut' = IF parsed = NULL
                   THEN [type |-> "invalid"]
                   ELSE [type |-> "spelled", parsed |-> parsed,
                         notes |-> getNotesFromIntervals(parsed.root, parsed.intervals),
                         intervalMap |-> getIntervalMap(parsed.root, parsed.intervals)]
    /\ UNCHANGED <<appVars, uiVars, hookVars, envVars, histVars, genIn>>

\* a call of getIntervalMap and its return
MapIntervals ==
    /\ genIn.type = "intervals"
    /\ genOut = NotReturned
    /\ genOut' = [type |-> "mapped",
                  intervalMap |-> getIntervalMap(genIn.root, genIn.intervals)]
    /\ UNCHANGED <<appVars, uiVars, hookVars, envVars, histVars, genIn>>

NextChord == SpellChord \/ MapIntervals

SpecChord == InitChord /\ [][NextChord]_vars

\* C20: every symbol parseChord recognizes is spelled with one note per
\* interval, the i-th note on the pitch class of the root plus the semitones
\* of the i-th interval, taken from the flat table when the root and the
\* quality call for flats and the interval is not augmented and from the
\* sharp table otherwise; Cmaj7#4 is C E F# B, and the interval maps of
\* Cmaj7, C7, Cm7, Cmaj7#4 and C7b9 are the documented ones
SpelledWithFlats(root, intervals) ==
    LET minorish == Has(intervals, "3m") \/ Has(intervals, "5d")
        dominant == Has(intervals, "7m") /\ (Has(intervals, "3M") \/ Has(intervals, "4P"))
    IN  \/ Includes(root, "b")
        \/ root = "F"
        \/ root \in {"C", "D", "G"} /\ minorish
        \/ root = "C" /\ dominant
DocumentedMaps ==
    ("Cmaj7" :> ("C" :> "1" @@ "E" :> "3" @@ "G" :> "5" @@ "B" :> "7"))
    @@ ("C7" :> ("C" :> "1" @@ "E" :> "3" @@ "G" :> "5" @@ "Bb" :> "b7"))
    @@ ("Cm7" :> ("C" :> "1" @@ "Eb" :> "b3" @@ "G" :> "5" @@ "Bb" :> "b7"))
    @@ ("Cmaj7#4" :> ("C" :> "1" @@ "E" :> "3" @@ "F#" :> "#4" @@ "B" :> "7"))
    @@ ("C7b9" :> ("C" :> "1" @@ "E" :> "3" @@ "G" :> "5" @@ "Bb" :> "b7" @@ "Db" :> "b9"))
OneNotePerInterval ==
    Len(genOut.notes) = Len(genOut.parsed.intervals)
SpelledAsDocumented ==
    \A i \in 1..Len(genOut.notes) :
        LET interval == genOut.parsed.intervals[i]
            note == genOut.notes[i]
            flats == /\ ~EndsWith(interval, "A")
                     /\ SpelledWithFlats(genOut.parsed.root, genOut.parsed.intervals)
        IN  /\ PitchClass(note) = (PitchClass(genOut.parsed.root) + Semitones(interval)) % 12
            /\ note \in {(IF flats THEN NOTES_FLAT ELSE NOTES_SHARP)[k] : k \in 1..12}
DocumentedExamples ==
    /\ genIn.symbol = "Cmaj7#4" => genOut.notes = <<"C", "E", "F#", "B">>
    /\ genIn.symbol \in DOMAIN DocumentedMaps
         => genOut.intervalMap = DocumentedMaps[genIn.symbol]
C20_Spelling ==
    (genIn.type = "chord" /\ genOut.type = "spelled")
        => OneNotePerInterval /\ SpelledAsDocumented /\ DocumentedExamples

\* C21: parseChord returns null for every symbol that has no leading root
\* token (A-G, then an optional # or b) or whose text after the token is not
\* a suffix of the table, and for every symbol it accepts the root it
\* returns is the token as written
Letters == {"A", "B", "C", "D", "E", "F", "G"}
RootTokens == {letter \o accidental : letter \in Letters, accidental \in {"", "#", "b"}}
KnownSuffixes == UNION {ChordTable[i].rest : i \in 1..Len(ChordTable)}
Accepted(symbol) == \E token \in RootTokens, rest \in KnownSuffixes : symbol = token \o rest
TokenOf(symbol) ==
    CHOOSE token \in RootTokens :
        /\ Len(symbol) >= Len(token) /\ SubSeq(symbol, 1, Len(token)) = token
        /\ \A longer \in RootTokens :
            (Len(symbol) >= Len(longer) /\ SubSeq(symbol, 1, Len(longer)) = longer)
                => Len(longer) <= Len(token)
-----------------------------------------------------------------------------
(* The progression generator: voice leading *)

\* the position of a voicing on its r-th lowest string
OnString(voicing, r) ==
    voicing.positions[CHOOSE k \in DOMAIN voicing.positions :
        Cardinality({j \in DOMAIN voicing.positions :
            voicing.positions[j].string < voicing.positions[k].string}) = r - 1]
RECURSIVE FretTravel(_, _, _)
FretTravel(a, b, r) ==
    IF r = 0 THEN 0
    ELSE LET d == OnString(a, r).fret - OnString(b, r).fret
         IN  (IF d >= 0 THEN d ELSE -d) + FretTravel(a, b, r - 1)
\* the distance of two voicings: the fret differences of the voices paired
\* by ascending string, or 100 when they have different numbers of voices
VoiceDistance(a, b) ==
    IF Len(a.positions) # Len(b.positions) THEN 100
    ELSE FretTravel(a, b, Len(a.positions))
\* the voicing placed for chord i and the candidates of chord i
Placed(i) == ReturnedSequence.items[FirstSlot(i)]
CandidatesOf(i) ==
    candidatesFor([name |-> ChordSymbol(i)], genIn.voicingType, genIn.stringSet)

\* C22: in a generated progression every chord after the first whose
\* predecessor got a voicing holds one of its own candidates, and no
\* candidate of the chord is nearer to the voicing of the predecessor
C22_VoiceLeading ==
    (genIn.type = "progression" /\ genOut.type = "returned")
    => \A i \in 2..Len(Template.degrees) :
        (FirstSlot(i - 1) \in Filled /\ FirstSlot(i) \in Filled)
        => \A candidates \in {CandidatesOf(i)} :
            /\ \E c \in DOMAIN candidates : candidates[c].positions = Placed(i).positions
            /\ \A c \in DOMAIN candidates :
                VoiceDistance(Placed(i - 1), Placed(i))
                    <= VoiceDistance(Placed(i - 1), candidates[c])

\* the second chord of a II-V-I in C was chosen before a candidate that lies
\* farther from the voicing of the first
C22_Witness ==
    /\ genIn = ProgressionCall("MajorII_V_I", "C", "Drop2", <<2, 3, 4, 5>>)
    /\ genOut.type = "returned"
    /\ 0 \in Filled /\ 4 \in Filled
    /\ \E c \in DOMAIN CandidatesOf(2) :
        VoiceDistance(Placed(1), Placed(2)) < VoiceDistance(Placed(1), CandidatesOf(2)[c])

\* C23: in a generated progression a chord without candidates leaves the
\* slots of its own span null and nothing else: every chord that has
\* candidates holds one of them, under its symbol, in all the slots of the
\* span the template gives it
C23_SkippedChord ==
    (genIn.type = "progression" /\ genOut.type = "returned")
    => \A symbol \in {ChordSymbol(i) : i \in DOMAIN Template.degrees} :
        \A candidates \in {candidatesFor([name |-> symbol], genIn.voicingType, genIn.stringSet)} :
            \A i \in {j \in DOMAIN Template.degrees : ChordSymbol(j) = symbol} :
                IF candidates = <<>>
                THEN ChordSlots(i) \cap Filled = {}
                ELSE /\ ChordSlots(i) \subseteq Filled
                     /\ \A slot \in ChordSlots(i) :
                           /\ ReturnedSequence.items[slot].name = symbol
                           /\ \E c \in DOMAIN candidates :
                                 candidates[c].positions = ReturnedSequence.items[slot].positions

\* a blues in C as Drop3 on the strings 2 to 5: the diminished chord of bar
\* six found no voicing, its four slots are null and bar seven is in place
C23_Witness ==
    /\ genIn = ProgressionCall("MajorBlues", "C", "Drop3", <<2, 3, 4, 5>>)
    /\ genOut.type = "returned"
    /\ CandidatesOf(6) = <<>>
    /\ (20..23) \cap Filled = {}
    /\ 19 \in Filled /\ 24 \in Filled
    /\ ReturnedSequence.items[24].name = "C7"

-----------------------------------------------------------------------------
(* The interval: claims *)

\* the beat of the run, 60/bpm seconds in ticks, and its dispatches
BeatOfRun == 600 \div genIn.closure.bpm
Dispatched == genOut.calls
\* the time of the next event on the audio clock
NextEventTime == genIn.clock + genIn.time

\* C24: the steps of a run are dispatched in cursor order, each by a pass
\* at which its time is earlier than the audio clock plus the look-ahead;
\* their times are strictly increasing and one beat (60/bpm, with the bpm
\* the interval was started with) apart, the time of the next event is one
\* beat after the last dispatch, and a pass leaves no step behind whose time
\* is inside the look-ahead
C24_WindowDrain ==
    /\ [](genIn.type = "run" =>
            /\ \A k \in DOMAIN Dispatched :
                 /\ Dispatched[k].time < Dispatched[k].at + scheduleAheadTime
                 /\ Dispatched[k].time = StartOffset + (k - 1) * BeatOfRun
                 /\ k > 1 => /\ Dispatched[k].time > Dispatched[k - 1].time
                             /\ Dispatched[k].at >= Dispatched[k - 1].at
                             /\ Dispatched[k].beatNumber
                                  = NextStep(Dispatched[k - 1].beatNumber, genIn.closure,
                                             genIn.sequence)
            /\ NextEventTime = StartOffset + Len(Dispatched) * BeatOfRun
            /\ Dispatched # <<>> =>
                 genIn.step = NextStep(Dispatched[Len(Dispatched)].beatNumber,
                                       genIn.closure, genIn.sequence))
    /\ [][(genIn.type = "run" /\ genIn'.clock = genIn.clock)
            => genIn'.time >= scheduleAheadTime]_vars

\* a pass that came late dispatched two steps of a run at 160 bpm at once,
\* three ticks apart
C24_Witness ==
    /\ genIn.type = "run"
    /\ genIn.closure.bpm = 160
    /\ Len(genOut.calls) >= 2
    /\ genOut.calls[1].at = genOut.calls[2].at
    /\ genOut.calls[2].time = genOut.calls[1].time + 3
    /\ genOut.calls[1].beatNumber = -4 /\ genOut.calls[2].beatNumber = -3

-----------------------------------------------------------------------------
(* The scheduler and the props of the page *)

\* the props of the latest render
LiveProps == [bpm |-> bpm, isRepeatMode |-> isRepeatMode, repeatRange |-> repeatRange]
\* a pass of the running interval dispatches one step
OneDispatch == timers # {} /\ Len(pending') = Len(pending) + 1

\* C25: every step the running interval dispatches is the step under the
\* cursor, read from the sequence as it is edited; the time of the next
\* event moves on by one beat of the bpm the page shows, and the cursor
\* advances inside the loop bounds the page shows
C25_LiveEdits ==
    [][OneDispatch =>
        /\ pending'[Len(pending')].beatNumber = currentStepRef
        /\ Len(runLog') = Len(runLog) + 1 =>
              runLog'[Len(runLog')].kind = AudioTrigger(currentStepRef, sequence).kind
        /\ nextNoteTimeRef' = nextNoteTimeRef + SecondsPerBeat(bpm)
        /\ currentStepRef' = NextStep(currentStepRef, LiveProps, sequence)]_vars

-----------------------------------------------------------------------------
(* The interval map: claims *)

MapCall(root, intervals) == [type |-> "intervals", root |-> root, intervals |-> intervals]
\* the notes of the call, the intervals that get a label, and the last of
\* them that falls on a note
NotesOfCall == getNotesFromIntervals(genIn.root, genIn.intervals)
Labelled == {i \in 1..Len(NotesOfCall) : genIn.intervals[i] # ""}
LastOn(note) ==
    CHOOSE i \in Labelled :
        NotesOfCall[i] = note /\ \A j \in Labelled : NotesOfCall[j] = note => j <= i
\* the pitch class an interval of the call falls on
PitchOfInterval(i) == (PitchClass(genIn.root) + Semitones(genIn.intervals[i])) % 12

\* C26: getIntervalMap has one entry for every note name that
\* getNotesFromIntervals returns for an interval that is not the empty
\* string; the entry of a note carries the label of the last such interval
\* that falls on the note, so that two intervals spelled as one note share an
\* entry and two intervals on one pitch class spelled as two notes (an
\* augmented interval beside a flat one) have an entry each
C26_LastWriteWins ==
    (genIn.type = "intervals" /\ genOut.type = "mapped")
    => /\ DOMAIN genOut.intervalMap = {NotesOfCall[i] : i \in Labelled}
       /\ \A i \in Labelled :
            genOut.intervalMap[NotesOfCall[i]]
                = formatInterval(genIn.intervals[LastOn(NotesOfCall[i])])

\* C#, #4 and #11: both augmented intervals are the note G, whose one entry
\* carries the label of the later
C26_Witness ==
    /\ genIn = MapCall("C#", <<"1P", "4A", "11A">>)
    /\ genOut.type = "mapped"
    /\ genOut.intervalMap = ("C#" :> "1") @@ ("G" :> "#11")

\* C26 as stated: for every interval the map has exactly one entry on the
\* pitch class of the interval, and it carries the label of the last
\* interval of the list on that pitch class
C26_OneEntryPerPitchClass ==
    (genIn.type = "intervals" /\ genOut.type = "mapped")
    => \A i \in 1..Len(genIn.intervals) :
        LET keys == {n \in DOMAIN genOut.intervalMap : PitchClass(n) = PitchOfInterval(i)}
            last == CHOOSE j \in 1..Len(genIn.intervals) :
                        /\ PitchOfInterval(j) = PitchOfInterval(i)
                        /\ \A k \in 1..Len(genIn.intervals) :
                              PitchOfInterval(k) = PitchOfInterval(i) => k <= j
        IN  /\ Cardinality(keys) = 1
            /\ \A n \in keys : genOut.intervalMap[n] = formatInterval(genIn.intervals[last])

\* C27: every step from 0 on that the running interval dispatches lies in
\* the active span of the moment: the repeat range when repeat mode has one,
\* otherwise the slots before the end of the last populated measure
C27_DispatchInSpan ==
    [][(OneDispatch /\ currentStepRef >= 0)
        => (SpanStart <= currentStepRef /\ currentStepRef <= SpanLast)]_vars

\* C28: at most one interval is live at any moment and none while playback
\* is stopped or paused; in those states no step is dispatched, and the
\* cursor moves only with a change of the transport or a manual seek, which
\* moves the highlight with it
Halted == ~isPlaying \/ isPaused
C28_OneTimer ==
    /\ [](/\ Cardinality(timers) <= 1
          /\ Halted => timers = {} /\ timerIDRef = 0)
    /\ [][Halted =>
            /\ Len(pending') <= Len(pending)
            /\ nextNoteTimeRef' # nextNoteTimeRef => ~Halted'
            /\ currentStepRef' # currentStepRef =>
                  \/ isPlaying' # isPlaying
                  \/ isPaused' # isPaused
                  \/ currentBeat' = currentStepRef']_vars

\* a run that had dispatched the count-in and two steps was paused: its
\* interval is gone and the cursor stands
C28_Witness ==
    /\ isPlaying /\ isPaused
    /\ timers = {}
    /\ currentStepRef = 2
    /\ pauseInfo.cursor = 2

\* C29: every voicing placed in a generated progression carries an interval
\* map with an entry for the note of each of its positions
C29_MapCoversNotes ==
    (genIn.type = "progression" /\ genOut.type = "returned")
    => \A slot \in Filled :
        \A k \in DOMAIN ReturnedSequence.items[slot].positions :
            ReturnedSequence.items[slot].positions[k].note
                \in DOMAIN ReturnedSequence.items[slot].intervalMap

\* C30: for every symbol parseChord accepts, the roots Cb, Fb, E# and B#
\* among them, getNotesFromIntervals returns one note for each interval of
\* the parsed chord and never an empty or a shorter list
C30_NotesForEveryRoot ==
    (genIn.type = "chord" /\ genOut.type = "spelled")
    => /\ genOut.notes # <<>>
       /\ Len(genOut.notes) = Len(genOut.parsed.intervals)

=============================================================================
